---- MODULE Spec2Model ----
(***************************************************************************)
(* Model of the transform stage of the website-scrape ETL pipeline:        *)
(*   transform/scrape.py     Scrape (validation, coercion, persist)        *)
(*   transform/schema.py     the three JSON schemas                        *)
(*   transform/transform.py  load_csv_to_db (the batch loader)             *)
(*   database/database.py    Database (create_table, insert_records)       *)
(*                                                                         *)
(* Python values are tagged records:                                       *)
(*   None   [t |-> "None"]                                                 *)
(*   str    [t |-> "str",   s |-> <<characters>>]                          *)
(*   int    [t |-> "int",   v |-> n]                                       *)
(*   float  [t |-> "float", n |-> mantissa, e |-> k]   (= n * 10^-k, k>=0, *)
(*          normalised; binary rounding is not modelled)                   *)
(*   bool   [t |-> "bool",  b |-> TRUE/FALSE]                              *)
(*   date   [t |-> "date",  y |-> .., m |-> .., d |-> ..]                  *)
(*   list   [t |-> "list",  a |-> <<values>>]                              *)
(*   dict   [t |-> "dict",  m |-> <<[k |-> characters, v |-> value]>>]     *)
(*          (insertion ordered, keys unique)                               *)
(* A str that holds JSON text carries, instead of its characters, what     *)
(* json.loads makes of it: [t |-> "str", json |-> value] or, for text that *)
(* is no JSON, [t |-> "str", json |-> [t |-> "malformed"]].                *)
(***************************************************************************)
EXTENDS Integers, Sequences, FiniteSets, TLC

VARIABLES csv_data,   \* the rows load_csv returned (list of dicts)
          idx,        \* position of the for loop of load_csv_to_db (1-based)
          pc,         \* what the loader does next
          scrape,     \* the Scrape under persist, or PyNone
          validated,  \* names of the fields whose _validate_<name> ran for the current row
          tables,     \* the SQLite database: table name -> schema and rows
          calls,      \* Database calls issued for the current row, in order
          outcome,    \* per processed row: "persisted", "failed" (logged) or "crashed"
          raised,     \* the exception that left load_csv_to_db, or "none"
          snap,       \* the database as it was after each processed row
          written,    \* per table, every row insert_records stored, in order
          _instances, \* _SQLite3Singleton._instances: key -> Database instance
          connections,\* the paths sqlite3.connect was called with; an instance is its index
          handles,    \* per Database(...) call: how it was made and the instance returned
          result,     \* the last Database call made directly: what it returned or raised
          data_points \* the data points export_url_content_to_csv handed to to_csv

\* The state of the loader and of the store.
loader ==
    <<csv_data, idx, pc, scrape, validated, tables, calls, outcome, raised, snap, written>>

\* The state of the Database class.
aside == <<_instances, connections, handles, result, data_points>>

vars ==
    <<csv_data, idx, pc, scrape, validated, tables, calls, outcome, raised, snap, written,
      _instances, connections, handles, result, data_points>>

(***************************************************************************)
(* Bounds of the model.                                                    *)
(***************************************************************************)
MaxRows == 3

(***************************************************************************)
(* Characters and strings.                                                 *)
(***************************************************************************)
PyNone == [t |-> "None"]
PyStr(chars) == [t |-> "str", s |-> chars]
PyInt(n) == [t |-> "int", v |-> n]

DigitChars == <<"0", "1", "2", "3", "4", "5", "6", "7", "8", "9">>
IsDigit(c) == \E k \in 1..10 : DigitChars[k] = c
DigitVal(c) == (CHOOSE k \in 1..10 : DigitChars[k] = c) - 1
LowerChars == {"a", "b", "c", "d", "e", "f", "g", "h", "i", "j", "k", "l", "m",
               "n", "o", "p", "q", "r", "s", "t", "u", "v", "w", "x", "y", "z"}
UpperChars == {"A", "B", "C", "D", "E", "F", "G", "H", "I", "J", "K", "L", "M",
               "N", "O", "P", "Q", "R", "S", "T", "U", "V", "W", "X", "Y", "Z"}
IsLetter(c) == c \in LowerChars \cup UpperChars
IsAlnum(c) == IsLetter(c) \/ IsDigit(c)
IsSpace(c) == c \in {" ", "\n"}

RECURSIVE lstrip(_)
lstrip(s) == IF s # <<>> /\ IsSpace(Head(s)) THEN lstrip(Tail(s)) ELSE s

RECURSIVE rstrip(_)
rstrip(s) ==
    IF s # <<>> /\ IsSpace(s[Len(s)]) THEN rstrip(SubSeq(s, 1, Len(s) - 1)) ELSE s

strip(s) == rstrip(lstrip(s))

\* str.split(sep) for a one-character separator: always at least one part.
RECURSIVE split(_, _)
split(s, sep) ==
    IF \A k \in 1..Len(s) : s[k] # sep
    THEN <<s>>
    ELSE LET p == CHOOSE k \in 1..Len(s) : s[k] = sep /\ \A j \in 1..(k - 1) : s[j] # sep
         IN  <<SubSeq(s, 1, p - 1)>> \o split(SubSeq(s, p + 1, Len(s)), sep)

\* str.removesuffix for a one-character suffix.
removesuffix(s, c) ==
    IF s # <<>> /\ s[Len(s)] = c THEN SubSeq(s, 1, Len(s) - 1) ELSE s

RECURSIVE DigitsValue(_, _)
DigitsValue(s, acc) ==
    IF s = <<>> THEN acc
    ELSE IF Head(s) = "_" THEN DigitsValue(Tail(s), acc)
    ELSE DigitsValue(Tail(s), acc * 10 + DigitVal(Head(s)))

\* Digits with single underscores between them, as int() and float() accept.
IsDigitRun(s) ==
    /\ s # <<>>
    /\ IsDigit(s[1]) /\ IsDigit(s[Len(s)])
    /\ \A k \in 1..Len(s) : IsDigit(s[k]) \/ (s[k] = "_" /\ s[k + 1] # "_")

PlainDigits(s) == s # <<>> /\ \A k \in 1..Len(s) : IsDigit(s[k])

RECURSIVE IntToChars(_)
IntToChars(n) ==
    IF n < 0 THEN <<"-">> \o IntToChars(-n)
    ELSE IF n < 10 THEN <<DigitChars[n + 1]>>
    ELSE IntToChars(n \div 10) \o <<DigitChars[(n % 10) + 1]>>

RECURSIVE ZeroPad(_, _)
ZeroPad(s, width) == IF Len(s) >= width THEN s ELSE ZeroPad(<<"0">> \o s, width)

(***************************************************************************)
(* int(str) and float(str).  A result is [ok |-> TRUE, val |-> value] or   *)
(* [ok |-> FALSE] (ValueError).  float() covers decimal literals; the      *)
(* exponent, inf and nan forms are outside the model's alphabet.           *)
(***************************************************************************)
Fail == [ok |-> FALSE]
Ok(v) == [ok |-> TRUE, val |-> v]

py_int(chars) ==
    LET t == strip(chars)
        signed == t # <<>> /\ Head(t) \in {"+", "-"}
        body == IF signed THEN Tail(t) ELSE t
        mag == DigitsValue(body, 0)
    IN  IF IsDigitRun(body)
        THEN Ok(PyInt(IF signed /\ Head(t) = "-" THEN -mag ELSE mag))
        ELSE Fail

RECURSIVE NormFloat(_, _)
NormFloat(n, e) ==
    IF e > 0 /\ n % 10 = 0 THEN NormFloat(n \div 10, e - 1)
    ELSE [t |-> "float", n |-> n, e |-> e]

py_float(chars) ==
    LET t == strip(chars)
        signed == t # <<>> /\ Head(t) \in {"+", "-"}
        body == IF signed THEN Tail(t) ELSE t
        parts == split(body, ".")
        ip == parts[1]
        fp == IF Len(parts) = 2 THEN parts[2] ELSE <<>>
        wellformed == /\ Len(parts) <= 2
                      /\ ip = <<>> \/ IsDigitRun(ip)
                      /\ fp = <<>> \/ IsDigitRun(fp)
                      /\ ip # <<>> \/ fp # <<>>
        fdigits == Len(SelectSeq(fp, IsDigit))
        mag == DigitsValue(ip \o fp, 0)
    IN  IF wellformed
        THEN Ok(NormFloat(IF signed /\ Head(t) = "-" THEN -mag ELSE mag, fdigits))
        ELSE Fail

\* A variant that leaves the percentage undivided.
FloatUndivided(f) == f

\* float / 100
FloatDiv100(f) == NormFloat(f.n, f.e + 2)

(***************************************************************************)
(* Calendar dates: datetime.fromisoformat(s).date(), date.isoformat() and  *)
(* date - relativedelta(months=k).                                         *)
(***************************************************************************)
IsLeap(y) == (y % 4 = 0 /\ y % 100 # 0) \/ y % 400 = 0

DaysInMonth(y, m) ==
    IF m = 2 THEN (IF IsLeap(y) THEN 29 ELSE 28)
    ELSE IF m \in {4, 6, 9, 11} THEN 30 ELSE 31

PyDate(y, m, d) == [t |-> "date", y |-> y, m |-> m, d |-> d]

TwoDigits(s) == Len(s) = 2 /\ PlainDigits(s)

\* "YYYY-MM-DD", month and day range-checked, year >= 1 (datetime.MINYEAR).
ParseIsoDate(s) ==
    LET y == DigitsValue(SubSeq(s, 1, 4), 0)
        m == DigitsValue(SubSeq(s, 6, 7), 0)
        d == DigitsValue(SubSeq(s, 9, 10), 0)
    IN  IF /\ Len(s) = 10
           /\ PlainDigits(SubSeq(s, 1, 4)) /\ s[5] = "-"
           /\ TwoDigits(SubSeq(s, 6, 7)) /\ s[8] = "-"
           /\ TwoDigits(SubSeq(s, 9, 10))
           /\ y >= 1 /\ m \in 1..12 /\ d \in 1..DaysInMonth(y, m)
        THEN Ok(PyDate(y, m, d))
        ELSE Fail

\* "HH[:MM[:SS[.f+]]]", each field range-checked.
ValidIsoClock(s) ==
    LET parts == split(s, ":")
        secs == IF Len(parts) = 3 THEN split(parts[3], ".") ELSE <<>>
    IN  /\ Len(parts) \in 1..3
        /\ TwoDigits(parts[1]) /\ DigitsValue(parts[1], 0) < 24
        /\ Len(parts) >= 2 => TwoDigits(parts[2]) /\ DigitsValue(parts[2], 0) < 60
        /\ Len(parts) = 3 =>
              /\ Len(secs) \in 1..2
              /\ TwoDigits(secs[1]) /\ DigitsValue(secs[1], 0) < 60
              /\ Len(secs) = 2 => PlainDigits(secs[2])

\* The time of day with an optional UTC offset: "Z" or "+HH:MM" / "-HH:MM".
ValidIsoTime(s) ==
    LET signs == {k \in 1..Len(s) : s[k] \in {"+", "-"}}
        p == CHOOSE k \in signs : \A j \in signs : k <= j
        off == split(SubSeq(s, p + 1, Len(s)), ":")
    IN  IF s # <<>> /\ s[Len(s)] = "Z"
        THEN ValidIsoClock(SubSeq(s, 1, Len(s) - 1))
        ELSE IF signs = {}
        THEN ValidIsoClock(s)
        ELSE /\ ValidIsoClock(SubSeq(s, 1, p - 1))
             /\ Len(off) = 2
             /\ TwoDigits(off[1]) /\ DigitsValue(off[1], 0) < 24
             /\ TwoDigits(off[2]) /\ DigitsValue(off[2], 0) < 60

\* datetime.fromisoformat(value).date(): TypeError for a non-str, ValueError for
\* a malformed string; the time of day and the offset are dropped.
fromisoformat_date(value) ==
    IF value.t # "str" THEN [ok |-> FALSE, exc |-> "TypeError"]
    ELSE LET s == value.s
             dt == ParseIsoDate(SubSeq(s, 1, 10))
         IN  IF Len(s) < 10 \/ ~dt.ok THEN [ok |-> FALSE, exc |-> "ValueError"]
             ELSE IF Len(s) = 10 THEN dt
             ELSE IF Len(s) >= 12 /\ ValidIsoTime(SubSeq(s, 12, Len(s))) THEN dt
             ELSE [ok |-> FALSE, exc |-> "ValueError"]

\* A variant of isoformat that does not pad the month and the day.
isoformat_unpadded(d) ==
    ZeroPad(IntToChars(d.y), 4) \o <<"-">> \o IntToChars(d.m) \o <<"-">> \o IntToChars(d.d)

isoformat(d) ==
    ZeroPad(IntToChars(d.y), 4) \o <<"-">> \o ZeroPad(IntToChars(d.m), 2)
        \o <<"-">> \o ZeroPad(IntToChars(d.d), 2)

\* date - relativedelta(months=k), 0 < k <= 12: the month moves back k months,
\* the year follows, and the day is clipped to the length of the new month.
MinusMonths(d, k) ==
    LET m0 == d.m - k
        y == IF m0 < 1 THEN d.y - 1 ELSE d.y
        m == IF m0 < 1 THEN m0 + 12 ELSE m0
        dd == IF d.d > DaysInMonth(y, m) THEN DaysInMonth(y, m) ELSE d.d
    IN  PyDate(y, m, dd)

(***************************************************************************)
(* _VALID_DOMAIN:                                                          *)
(*   ^[a-zA-Z0-9][a-zA-Z0-9-]{0,61}[a-zA-Z0-9](?:\.[a-zA-Z]{2,})+$         *)
(* No class of the pattern holds ".", so a match is a split at the dots:   *)
(* a first label of 2..63 characters and one or more all-letter labels of  *)
(* two or more characters.  "$" also matches before one final newline.     *)
(***************************************************************************)
DomainFirstLabelMax == 63

ValidDomainMatch(chars) ==
    LET s == removesuffix(chars, "\n")
        parts == split(s, ".")
        first == parts[1]
    IN  /\ Len(parts) >= 2
        /\ Len(first) >= 2 /\ Len(first) <= DomainFirstLabelMax
        /\ IsAlnum(first[1]) /\ IsAlnum(first[Len(first)])
        /\ \A k \in 1..Len(first) : IsAlnum(first[k]) \/ first[k] = "-"
        /\ \A p \in 2..Len(parts) :
              Len(parts[p]) >= 2 /\ \A k \in 1..Len(parts[p]) : IsLetter(parts[p][k])

(***************************************************************************)
(* Python dicts and lists, json.loads and the three JSON schemas           *)
(* (jsonschema draft 7).  Keys of the schemas' fixed vocabulary are TLA+   *)
(* strings; keys the code inspects or builds (dates, bucket labels) are    *)
(* character sequences.                                                    *)
(***************************************************************************)
PyFloat(n, e) == NormFloat(n, e)
PyList(items) == [t |-> "list", a |-> items]
PyDict(members) == [t |-> "dict", m |-> members]
JsonText(doc) == [t |-> "str", json |-> doc]
Malformed == [t |-> "malformed"]

DictKeys(d) == {d.m[k].k : k \in 1..Len(d.m)}
DictHas(d, key) == \E k \in 1..Len(d.m) : d.m[k].k = key
DictGet(d, key) ==
    IF DictHas(d, key) THEN (d.m[CHOOSE k \in 1..Len(d.m) : d.m[k].k = key]).v ELSE PyNone

\* d[key] = v: a present key keeps its position and takes the new value.
DictSet(d, key, v) ==
    IF DictHas(d, key)
    THEN PyDict([k \in 1..Len(d.m) |->
                    IF d.m[k].k = key THEN [k |-> key, v |-> v] ELSE d.m[k]])
    ELSE PyDict(Append(d.m, [k |-> key, v |-> v]))

\* json.loads: TypeError for a non-str, ValueError (JSONDecodeError) for bad text.
json_loads(value) ==
    IF value.t # "str" THEN [ok |-> FALSE, exc |-> "TypeError"]
    ELSE IF value.json = Malformed THEN [ok |-> FALSE, exc |-> "ValueError"]
    ELSE Ok(value.json)

\* Draft 7 types: a float with zero fraction is an "integer"; bool is neither.
IsJsonInteger(v) == v.t = "int" \/ (v.t = "float" /\ v.e = 0)
IsJsonNumber(v) == v.t \in {"int", "float"}
NumSign(v) == IF v.t = "int" THEN v.v ELSE v.n
IsNonNegInteger(v) == IsJsonInteger(v) /\ NumSign(v) >= 0

\* "^\d{4}-\d{2}-\d{2}$" found in the key by re.search.
MatchesDateKey(chars) ==
    LET s == removesuffix(chars, "\n")
    IN  /\ Len(s) = 10
        /\ PlainDigits(SubSeq(s, 1, 4)) /\ s[5] = "-"
        /\ PlainDigits(SubSeq(s, 6, 7)) /\ s[8] = "-"
        /\ PlainDigits(SubSeq(s, 9, 10))

\* "^[A-Z]{2}$"
MatchesAlpha2(chars) ==
    LET s == removesuffix(chars, "\n")
    IN  Len(s) = 2 /\ s[1] \in UpperChars /\ s[2] \in UpperChars

\* "^[a-z\-]+$"
MatchesUrlCode(chars) ==
    LET s == removesuffix(chars, "\n")
    IN  s # <<>> /\ \A k \in 1..Len(s) : s[k] \in LowerChars \cup {"-"}

visits_history_schema(inst) ==
    /\ inst.t = "dict"
    /\ \A k \in 1..Len(inst.m) :
          MatchesDateKey(inst.m[k].k) /\ IsNonNegInteger(inst.m[k].v)

TopCountryKeys == {"countryAlpha2Code", "countryUrlCode", "visitsShare", "visitsShareChange"}

\* A variant of the item schema without its "required" list.
TopCountryItemLenient(item) ==
    /\ item.t = "dict"
    /\ DictKeys(item) \subseteq TopCountryKeys
    /\ DictHas(item, "countryAlpha2Code") =>
           /\ DictGet(item, "countryAlpha2Code").t = "str"
           /\ MatchesAlpha2(DictGet(item, "countryAlpha2Code").s)
    /\ DictHas(item, "countryUrlCode") =>
           /\ DictGet(item, "countryUrlCode").t = "str"
           /\ MatchesUrlCode(DictGet(item, "countryUrlCode").s)
    /\ DictHas(item, "visitsShare") => IsJsonNumber(DictGet(item, "visitsShare"))
    /\ DictHas(item, "visitsShareChange") => IsJsonNumber(DictGet(item, "visitsShareChange"))

TopCountryItemValid(item) ==
    /\ item.t = "dict"
    /\ DictKeys(item) = TopCountryKeys
    /\ DictGet(item, "countryAlpha2Code").t = "str"
    /\ MatchesAlpha2(DictGet(item, "countryAlpha2Code").s)
    /\ DictGet(item, "countryUrlCode").t = "str"
    /\ MatchesUrlCode(DictGet(item, "countryUrlCode").s)
    /\ IsJsonNumber(DictGet(item, "visitsShare"))
    /\ IsJsonNumber(DictGet(item, "visitsShareChange"))

top_countries_traffic_schema(inst) ==
    inst.t = "list" /\ \A k \in 1..Len(inst.a) : TopCountryItemValid(inst.a[k])

AgeBucketValid(item) ==
    /\ item.t = "dict"
    /\ DictKeys(item) \subseteq {"minAge", "maxAge", "value"}
    /\ {"minAge", "value"} \subseteq DictKeys(item)
    /\ IsNonNegInteger(DictGet(item, "minAge"))
    /\ DictHas(item, "maxAge") => IsNonNegInteger(DictGet(item, "maxAge"))
    /\ IsJsonNumber(DictGet(item, "value"))

age_distribution_schema(inst) ==
    inst.t = "list" /\ \A k \in 1..Len(inst.a) : AgeBucketValid(inst.a[k])

\* str() of a number, as an f-string renders it.
FormatNumber(v) ==
    IF v.t = "int" THEN IntToChars(v.v) ELSE IntToChars(v.n) \o <<".", "0">>

\* Python truthiness of what bucket.get("maxAge") returns.
Truthy(v) ==
    CASE v.t = "None" -> FALSE
      [] v.t = "int" -> v.v # 0
      [] v.t = "float" -> v.n # 0
      [] OTHER -> TRUE

_age_dist_key(bucket) ==
    LET min_age == DictGet(bucket, "minAge")
        max_age == DictGet(bucket, "maxAge")
    IN  IF Truthy(max_age)
        THEN FormatNumber(min_age) \o <<" ", "-", " ">> \o FormatNumber(max_age)
        ELSE FormatNumber(min_age) \o <<"+">>

(***************************************************************************)
(* Field coercion and the validators of Scrape.  A validator returns       *)
(* Ok(value) or raises: [ok |-> FALSE, exc |-> <exception class>].         *)
(***************************************************************************)
Raise(exc) == [ok |-> FALSE, exc |-> exc]

\* A variant of _to_sec that takes minutes and seconds below 60 only.
_to_sec_clock(time_hms) ==
    LET parts == split(time_hms, ":")
        h == py_int(parts[1])
        m == py_int(parts[2])
        sec == py_int(parts[3])
    IN  IF time_hms # <<>>
        THEN IF Len(parts) # 3 THEN Raise("ValueError")
             ELSE IF ~(h.ok /\ m.ok /\ sec.ok) THEN Raise("ValueError")
             ELSE IF m.val.v >= 60 \/ sec.val.v >= 60 THEN Raise("ValueError")
             ELSE Ok(PyInt(h.val.v * 3600 + m.val.v * 60 + sec.val.v))
        ELSE Ok(PyNone)

\* _to_sec: "h:m:s" -> seconds; a falsy (empty) string gives None.
_to_sec(time_hms) ==
    LET parts == split(time_hms, ":")
        h == py_int(parts[1])
        m == py_int(parts[2])
        sec == py_int(parts[3])
    IN  IF time_hms # <<>>
        THEN IF Len(parts) # 3 THEN Raise("ValueError")
             ELSE IF ~(h.ok /\ m.ok /\ sec.ok) THEN Raise("ValueError")
             ELSE Ok(PyInt(h.val.v * 3600 + m.val.v * 60 + sec.val.v))
        ELSE Ok(PyNone)

\* A variant of _to_float that falls back to None on text that is no number.
_to_float_or_none(percent_value) ==
    LET f == py_float(removesuffix(percent_value, "%"))
    IN  IF percent_value # <<>> /\ f.ok THEN Ok(FloatDiv100(f.val)) ELSE Ok(PyNone)

\* _to_float: "p%" -> p / 100; a falsy (empty) string gives None.
_to_float(percent_value) ==
    LET f == py_float(removesuffix(percent_value, "%"))
    IN  IF percent_value # <<>>
        THEN IF f.ok THEN Ok(FloatDiv100(f.val)) ELSE Raise("ValueError")
        ELSE Ok(PyNone)

\* A variant of _validate that lets a value that is already a t through.
_validate_or_keep(value, t) ==
    IF value = PyNone THEN Ok(PyNone)
    ELSE IF value.t = "str"
    THEN LET r == IF t = "int" THEN py_int(value.s) ELSE py_float(value.s)
         IN  IF r.ok THEN r ELSE Raise("ValidationException")
    ELSE IF value.t = t THEN Ok(value)
    ELSE Raise("ValidationException")

\* _validate(value, t, field_name) for t in {int, float}.
_validate(value, t) ==
    IF value = PyNone THEN Ok(PyNone)
    ELSE IF value.t = "str"
    THEN LET r == IF t = "int" THEN py_int(value.s) ELSE py_float(value.s)
         IN  IF r.ok THEN r ELSE Raise("ValidationException")
    ELSE Raise("ValidationException")

_validate_domain(domain) ==
    IF domain.t # "str" THEN Raise("ValidationException")
    ELSE IF ~ValidDomainMatch(domain.s) THEN Raise("ValidationException")
    ELSE Ok(domain)

_validate_snapshot_date(snapshot_date) ==
    LET r == fromisoformat_date(snapshot_date)
    IN  IF r.ok THEN r ELSE Raise("ValidationException")

_validate_bounce_rate(bounce_rate) ==
    IF bounce_rate = PyNone THEN Ok(PyNone)
    ELSE IF bounce_rate.t = "str"
    THEN LET r == _to_float(bounce_rate.s)
         IN  IF r.ok THEN r ELSE Raise("ValidationException")
    ELSE Raise("ValidationException")

_validate_avg_visit_duration(avg_visit_duration) ==
    IF avg_visit_duration = PyNone THEN Ok(PyNone)
    ELSE IF avg_visit_duration.t = "str"
    THEN LET r == _to_sec(avg_visit_duration.s)
         IN  IF r.ok THEN r ELSE Raise("ValidationException")
    ELSE Raise("ValidationException")

\* A variant of the validator that parses whatever it is given, None too.
_validate_visits_history_parsed(visits_history) ==
    LET r == json_loads(visits_history)
    IN  IF ~r.ok THEN Raise("ValidationException")
        ELSE IF ~visits_history_schema(r.val) THEN Raise("ValidationException")
        ELSE r

_validate_visits_history(visits_history) ==
    LET r == json_loads(visits_history)
    IN  IF visits_history = PyNone THEN Ok(PyDict(<<>>))
        ELSE IF ~r.ok THEN Raise("ValidationException")
        ELSE IF ~visits_history_schema(r.val) THEN Raise("ValidationException")
        ELSE r

_validate_top_countries(top_countries) ==
    LET r == json_loads(top_countries)
    IN  IF top_countries = PyNone THEN Ok(PyList(<<>>))
        ELSE IF ~r.ok THEN Raise("ValidationException")
        ELSE IF ~top_countries_traffic_schema(r.val) THEN Raise("ValidationException")
        ELSE Ok(PyList([k \in 1..Len(r.val.a) |->
                           DictGet(r.val.a[k], "countryAlpha2Code")]))

RECURSIVE AgeDict(_, _)
AgeDict(buckets, acc) ==
    IF buckets = <<>> THEN acc
    ELSE AgeDict(Tail(buckets),
                 DictSet(acc, _age_dist_key(Head(buckets)), DictGet(Head(buckets), "value")))

_validate_age_distribution(age_distribution) ==
    LET r == json_loads(age_distribution)
    IN  IF age_distribution = PyNone THEN Ok(PyDict(<<>>))
        ELSE IF ~r.ok THEN Raise("ValidationException")
        ELSE IF ~age_distribution_schema(r.val) THEN Raise("ValidationException")
        ELSE Ok(AgeDict(r.val.a, PyDict(<<>>)))

(***************************************************************************)
(* Scrape: the dataclass fields in declaration order and                   *)
(* Validator.__post_init__, which runs _validate_<name> field by field and *)
(* stops at the first one that raises.  The field db has no validator.     *)
(***************************************************************************)
\* A variant of the declaration order with snapshot_date ahead of domain.
FieldOrderDateFirst ==
    <<"snapshot_date", "domain", "global_rank", "total_visits", "bounce_rate",
      "pages_per_visit", "avg_visit_duration", "one_month_rank_change",
      "two_month_rank_change", "visits_history", "last_month_change_in_traffic",
      "top_countries", "age_distribution">>

FieldOrder ==
    <<"domain", "snapshot_date", "global_rank", "total_visits", "bounce_rate",
      "pages_per_visit", "avg_visit_duration", "one_month_rank_change",
      "two_month_rank_change", "visits_history", "last_month_change_in_traffic",
      "top_countries", "age_distribution">>

FieldNames == {FieldOrder[k] : k \in 1..Len(FieldOrder)}

ValidateField(name, value) ==
    CASE name = "domain" -> _validate_domain(value)
      [] name = "snapshot_date" -> _validate_snapshot_date(value)
      [] name = "global_rank" -> _validate(value, "int")
      [] name = "total_visits" -> _validate(value, "int")
      [] name = "bounce_rate" -> _validate_bounce_rate(value)
      [] name = "pages_per_visit" -> _validate(value, "float")
      [] name = "avg_visit_duration" -> _validate_avg_visit_duration(value)
      [] name = "one_month_rank_change" -> _validate(value, "int")
      [] name = "two_month_rank_change" -> _validate(value, "int")
      [] name = "visits_history" -> _validate_visits_history(value)
      [] name = "last_month_change_in_traffic" -> _validate(value, "float")
      [] name = "top_countries" -> _validate_top_countries(value)
      [] name = "age_distribution" -> _validate_age_distribution(value)

\* The loop of __post_init__ from field number k on: self with the fields
\* coerced so far, and the names of the validators that have run.  r is what
\* the validator of field k returned or raised.
RECURSIVE post_init(_, _, _)
\* A variant of the loop body that drops a field it cannot coerce (sets it to
\* None) and goes on, instead of raising.
setattr_or_skip(self, k, ran, r) ==
    post_init([self EXCEPT ![FieldOrder[k]] = IF r.ok THEN r.val ELSE PyNone],
              k + 1, Append(ran, FieldOrder[k]))

setattr_or_raise(self, k, ran, r) ==
    IF r.ok
    THEN post_init([self EXCEPT ![FieldOrder[k]] = r.val], k + 1, Append(ran, FieldOrder[k]))
    ELSE [ok |-> FALSE, exc |-> r.exc, ran |-> Append(ran, FieldOrder[k])]

post_init(self, k, ran) ==
    IF k > Len(FieldOrder) THEN [ok |-> TRUE, self |-> self, ran |-> ran]
    ELSE setattr_or_raise(self, k, ran, ValidateField(FieldOrder[k], self[FieldOrder[k]]))

\* Scrape(row): the generated __init__ takes exactly the thirteen field names
\* as keywords (TypeError otherwise), stores them and calls __post_init__.
ScrapeInit(row) ==
    IF DOMAIN row # FieldNames THEN [ok |-> FALSE, exc |-> "TypeError", ran |-> <<>>]
    ELSE post_init(row, 1, <<>>)

(***************************************************************************)
(* Database: a table is [exists, cols, pk, rows]; rows are the stored      *)
(* tuples in rowid order.  Every call runs in its own transaction          *)
(* (_with_cursor).                                                         *)
(***************************************************************************)
TableNames ==
    {"website_scrapes", "website_global_rank", "website_total_visits",
     "top_countries", "age_distribution"}

NoTable == [exists |-> FALSE, cols |-> <<>>, pk |-> <<>>, rows |-> <<>>]

EmptyDatabase == [n \in TableNames |-> NoTable]

\* CREATE TABLE IF NOT EXISTS <table> (<schema>, CONSTRAINT pk PRIMARY KEY (...)).
create_table(db, table, schema, primary_key) ==
    IF db[table].exists THEN db
    ELSE [db EXCEPT ![table] =
             [exists |-> TRUE, cols |-> schema, pk |-> primary_key, rows |-> <<>>]]

ColumnIndex(cols, name) == CHOOSE k \in 1..Len(cols) : cols[k][1] = name

\* Column affinity on storing: an int in a REAL column becomes a float, an
\* integral float in an INTEGER column becomes an int.
StoreValue(coltype, v) ==
    IF coltype = "REAL" /\ v.t = "int" THEN PyFloat(v.v, 0)
    ELSE IF coltype = "INTEGER" /\ v.t = "float" /\ v.e = 0 THEN PyInt(v.n)
    ELSE v

StoreRow(cols, record) == [k \in 1..Len(cols) |-> StoreValue(cols[k][2], record[k])]

StoreRows(cols, records) == [k \in 1..Len(records) |-> StoreRow(cols, records[k])]

\* Two rows collide on the primary key when they agree on every key column;
\* a NULL in a key column never collides.
SameKey(tbl, r1, r2) ==
    /\ tbl.pk # <<>>
    /\ \A k \in 1..Len(tbl.pk) :
           LET c == ColumnIndex(tbl.cols, tbl.pk[k])
           IN  r1[c] = r2[c] /\ r1[c] # PyNone

\* Variants of the insert that the upsert properties must tell apart from
\* INSERT OR REPLACE: INSERT OR IGNORE keeps the row already stored under the
\* key, and an insert into a table without its key constraint only adds.
InsertOrIgnore(tbl, row) ==
    IF \E i \in 1..Len(tbl.rows) : SameKey(tbl, tbl.rows[i], row) THEN tbl
    ELSE [tbl EXCEPT !.rows = Append(tbl.rows, row)]

InsertUnkeyed(tbl, row) == [tbl EXCEPT !.rows = Append(tbl.rows, row)]

\* INSERT OR REPLACE of one row: the colliding rows are deleted and the new
\* row is added with the next rowid.
\* A variant that replaces the whole snapshot (website, snapshot_date) of the row.
InsertReplacingSnapshot(tbl, row) ==
    [tbl EXCEPT !.rows =
        Append(SelectSeq(tbl.rows, LAMBDA r : ~(r[1] = row[1] /\ r[2] = row[2])), row)]

InsertOrReplace(tbl, row) ==
    [tbl EXCEPT !.rows = Append(SelectSeq(tbl.rows, LAMBDA r : ~SameKey(tbl, r, row)), row)]

\* cur.executemany(sql, records): the records are bound and inserted one
\* after the other in the open transaction; a record that has not one value
\* per "?" raises ProgrammingError, the rows before it already inserted.
RECURSIVE executemany(_, _)
executemany(tbl, records) ==
    IF records = <<>> THEN [tbl |-> tbl, exc |-> "none"]
    ELSE IF Len(Head(records)) # Len(tbl.cols) THEN [tbl |-> tbl, exc |-> "ProgrammingError"]
    ELSE executemany(InsertOrReplace(tbl, StoreRow(tbl.cols, Head(records))),
                     Tail(records))

\* A variant of the decorator that commits whatever the body did.
_with_cursor_commit(db, body) ==
    [ok |-> body.exc = "none", exc |-> body.exc, db |-> body.db]

\* _with_cursor: "with conn:" around the body of a method.  db is the
\* committed database, body what the method left in its transaction and the
\* exception it raised: the transaction is committed when the body returned
\* and rolled back when it raised.
_with_cursor(db, body) ==
    IF body.exc = "none"
    THEN [ok |-> TRUE, exc |-> "none", db |-> body.db]
    ELSE [ok |-> FALSE, exc |-> body.exc, db |-> db]

\* The database of the open transaction after executemany on one table.
InTransaction(db, table, r) == [db |-> [db EXCEPT ![table] = r.tbl], exc |-> r.exc]

\* The body of insert_records: the SELECT of _get_table_column_names raises
\* OperationalError for a table that does not exist.
InsertBody(db, table, records) ==
    IF ~db[table].exists THEN [db |-> db, exc |-> "OperationalError"]
    ELSE InTransaction(db, table, executemany(db[table], records))

insert_records(db, table, records) == _with_cursor(db, InsertBody(db, table, records))

(***************************************************************************)
(* Scrape._create_<table>_table and Scrape._to_<table>_table.              *)
(***************************************************************************)
ScrapesColumns ==
    <<<<"website", "TEXT">>, <<"snapshot_date", "TEXT">>, <<"global_rank", "INTEGER">>,
      <<"total_visits", "INTEGER">>, <<"bounce_rate", "REAL">>,
      <<"pages_per_visit", "REAL">>, <<"avg_visit_duration", "INTEGER">>,
      <<"last_month_change_in_traffic", "REAL">>>>

_create_website_scrapes_table(db) ==
    create_table(db, "website_scrapes", ScrapesColumns, <<"website", "snapshot_date">>)

_create_website_global_rank_table(db) ==
    create_table(db, "website_global_rank",
                 <<<<"website", "TEXT">>, <<"snapshot_date", "TEXT">>,
                   <<"global_rank", "INTEGER">>>>,
                 <<"website", "snapshot_date">>)

_create_website_total_visits_table(db) ==
    create_table(db, "website_total_visits",
                 <<<<"website", "TEXT">>, <<"snapshot_date", "TEXT">>,
                   <<"total_visits", "INTEGER">>>>,
                 <<"website", "snapshot_date">>)

_create_top_countries_table(db) ==
    create_table(db, "top_countries",
                 <<<<"website", "TEXT">>, <<"snapshot_date", "TEXT">>,
                   <<"country", "TEXT">>>>,
                 <<"website", "snapshot_date", "country">>)

_create_age_distribution_table(db) ==
    create_table(db, "age_distribution",
                 <<<<"website", "TEXT">>, <<"snapshot_date", "TEXT">>,
                   <<"age_group_label", "TEXT">>, <<"value", "REAL">>>>,
                 <<"website", "snapshot_date", "age_group_label">>)

\* The create_table call that persist issues for the table.
CreateTable(table, db) ==
    CASE table = "website_scrapes" -> _create_website_scrapes_table(db)
      [] table = "website_global_rank" -> _create_website_global_rank_table(db)
      [] table = "website_total_visits" -> _create_website_total_visits_table(db)
      [] table = "top_countries" -> _create_top_countries_table(db)
      [] table = "age_distribution" -> _create_age_distribution_table(db)

\* What one _to_<table>_table call did: the database it leaves, the Database
\* calls it issued, the records insert_records stored, and the exception it
\* raised ("none" when it returned).
StepResult(db, issued, stored, exc) ==
    [db |-> db, issued |-> issued, stored |-> stored, exc |-> exc]

InsertOutcome(ins, table, records) ==
    StepResult(ins.db,
               <<<<"create_table", table>>, <<"insert_records", table>>>>,
               IF ins.ok THEN records ELSE <<>>,
               IF ins.ok THEN "none" ELSE ins.exc)

\* create_table(...) then insert_records(table, records).
CreateThenInsert(created, table, records) ==
    InsertOutcome(insert_records(created, table, records), table, records)

ScrapesRecords(self) ==
    <<<<self.domain, PyStr(isoformat(self.snapshot_date)), self.global_rank,
        self.total_visits, self.bounce_rate, self.pages_per_visit,
        self.avg_visit_duration, self.last_month_change_in_traffic>>>>

_to_website_scrapes_table(self, db) ==
    CreateThenInsert(_create_website_scrapes_table(db), "website_scrapes",
                     ScrapesRecords(self))

\* int + int and int - int; None as an operand is a TypeError.
CanAddInts(a, b) == a.t = "int" /\ b.t = "int"

\* A variant of the records with the two-month change added, like the
\* one-month change, instead of subtracted.
GlobalRankRecordsAdded(self) ==
    LET prev_1_month == MinusMonths(self.snapshot_date, 1)
        prev_2_month == MinusMonths(self.snapshot_date, 2)
    IN  <<<<self.domain, PyStr(isoformat(self.snapshot_date)), self.global_rank>>,
          <<self.domain, PyStr(isoformat(prev_1_month)),
            PyInt(self.global_rank.v + self.one_month_rank_change.v)>>,
          <<self.domain, PyStr(isoformat(prev_2_month)),
            PyInt(self.global_rank.v + self.two_month_rank_change.v)>>>>

GlobalRankRecords(self) ==
    LET prev_1_month == MinusMonths(self.snapshot_date, 1)
        prev_2_month == MinusMonths(self.snapshot_date, 2)
    IN  <<<<self.domain, PyStr(isoformat(self.snapshot_date)), self.global_rank>>,
          <<self.domain, PyStr(isoformat(prev_1_month)),
            PyInt(self.global_rank.v + self.one_month_rank_change.v)>>,
          <<self.domain, PyStr(isoformat(prev_2_month)),
            PyInt(self.global_rank.v - self.two_month_rank_change.v)>>>>

\* The table is created first; the list of records is built next, and building
\* it raises TypeError when one of the three rank fields is None.
_to_website_global_rank_table(self, db) ==
    LET created == _create_website_global_rank_table(db)
    IN  IF /\ CanAddInts(self.global_rank, self.one_month_rank_change)
           /\ CanAddInts(self.global_rank, self.two_month_rank_change)
        THEN CreateThenInsert(created, "website_global_rank", GlobalRankRecords(self))
        ELSE StepResult(created, <<<<"create_table", "website_global_rank">>>>, <<>>,
                        "TypeError")

TotalVisitsRecords(self) ==
    [k \in 1..Len(self.visits_history.m) |->
        <<self.domain, PyStr(self.visits_history.m[k].k), self.visits_history.m[k].v>>]

_to_website_total_visits_table(self, db) ==
    CreateThenInsert(_create_website_total_visits_table(db), "website_total_visits",
                     TotalVisitsRecords(self))

TopCountriesRecords(self) ==
    [k \in 1..Len(self.top_countries.a) |->
        <<self.domain, PyStr(isoformat(self.snapshot_date)), self.top_countries.a[k]>>]

_to_top_countries_table(self, db) ==
    CreateThenInsert(_create_top_countries_table(db), "top_countries",
                     TopCountriesRecords(self))

AgeDistributionRecords(self) ==
    [k \in 1..Len(self.age_distribution.m) |->
        <<self.domain, PyStr(isoformat(self.snapshot_date)),
          PyStr(self.age_distribution.m[k].k), self.age_distribution.m[k].v>>]

_to_age_distribution_table(self, db) ==
    CreateThenInsert(_create_age_distribution_table(db), "age_distribution",
                     AgeDistributionRecords(self))

(***************************************************************************)
(* Raw input values.  The first row is the fixture of                      *)
(* transform/tests/test_scrape.py (its visit shares rounded to one         *)
(* decimal); the others vary it.                                           *)
(***************************************************************************)
\* The texts of the raw values.
Text ==
    [ExampleCom |->
        <<"e", "x", "a", "m", "p", "l", "e", ".", "c", "o", "m">>,
     ShopIo |->
        <<"s", "h", "o", "p", "-", "1", ".", "i", "o">>,
     BadCom |->
        <<"-", "b", "a", "d", ".", "c", "o", "m">>,
     XCom |->
        <<"x", ".", "c", "o", "m">>,
     AB1Com |->
        <<"a", ".", "b", "-", "1", ".", "c", "o", "m">>,
     NotADomain |->
        <<"n", "o", "t", " ", "a", " ", "d", "o", "m", "a", "i", "n">>,
     May20Stamp |->
        <<"2", "0", "2", "4", "-", "0", "5", "-", "2", "0", "T", "0", "0", ":", "0", "0",
          ":", "0", "0", "+", "0", "0", ":", "0", "0">>,
     May20Late |->
        <<"2", "0", "2", "4", "-", "0", "5", "-", "2", "0", "T", "2", "3", ":", "3", "0",
          ":", "0", "0", "-", "0", "5", ":", "0", "0">>,
     May20 |->
        <<"2", "0", "2", "4", "-", "0", "5", "-", "2", "0">>,
     Jun20 |->
        <<"2", "0", "2", "4", "-", "0", "6", "-", "2", "0">>,
     Mar31 |->
        <<"2", "0", "2", "4", "-", "0", "3", "-", "3", "1">>,
     Jan15 |->
        <<"2", "0", "2", "4", "-", "0", "1", "-", "1", "5">>,
     Month13 |->
        <<"2", "0", "2", "4", "-", "1", "3", "-", "0", "1">>,
     May20Text |->
        <<"2", "0", " ", "M", "a", "y", " ", "2", "0", "2", "4">>,
     Apr01 |->
        <<"2", "0", "2", "4", "-", "0", "4", "-", "0", "1">>,
     Apr02 |->
        <<"2", "0", "2", "4", "-", "0", "4", "-", "0", "2">>,
     May01 |->
        <<"2", "0", "2", "4", "-", "0", "5", "-", "0", "1">>,
     Apr1Short |->
        <<"2", "0", "2", "4", "-", "4", "-", "1">>,
     AnotherCom |->
        <<"a", "n", "o", "t", "h", "e", "r", ".", "c", "o", "m">>,
     Jan01 |->
        <<"2", "0", "2", "4", "-", "0", "1", "-", "0", "1">>,
     Feb01 |->
        <<"2", "0", "2", "4", "-", "0", "2", "-", "0", "1">>,
     Mar01 |->
        <<"2", "0", "2", "4", "-", "0", "3", "-", "0", "1">>]

\* Elements of a top_countries document.
Country ==
    [UnitedStates |->
        PyDict(<<[k |-> "countryAlpha2Code", v |-> PyStr(<<"U", "S">>)],
                 [k |-> "countryUrlCode", v |-> PyStr(<<"u", "n", "i", "t", "e", "d", "-", "s", "t", "a", "t", "e", "s">>)],
                 [k |-> "visitsShare", v |-> PyFloat(4, 1)],
                 [k |-> "visitsShareChange", v |-> PyFloat(-1, 1)]>>),
     India |->
        PyDict(<<[k |-> "countryAlpha2Code", v |-> PyStr(<<"I", "N">>)],
                 [k |-> "countryUrlCode", v |-> PyStr(<<"i", "n", "d", "i", "a">>)],
                 [k |-> "visitsShare", v |-> PyFloat(9, 2)],
                 [k |-> "visitsShareChange", v |-> PyFloat(-11, 2)]>>),
     Germany |->
        PyDict(<<[k |-> "countryAlpha2Code", v |-> PyStr(<<"D", "E">>)],
                 [k |-> "countryUrlCode", v |-> PyStr(<<"g", "e", "r", "m", "a", "n", "y">>)],
                 [k |-> "visitsShare", v |-> PyFloat(5, 2)],
                 [k |-> "visitsShareChange", v |-> PyInt(0)]>>),
     NoShare |->
        PyDict(<<[k |-> "countryAlpha2Code", v |-> PyStr(<<"F", "R">>)],
                 [k |-> "countryUrlCode", v |-> PyStr(<<"f", "r", "a", "n", "c", "e">>)],
                 [k |-> "visitsShareChange", v |-> PyInt(0)]>>)]

\* Elements of an age_distribution document.
Bucket ==
    [Age18to34 |->
        PyDict(<<[k |-> "minAge", v |-> PyInt(18)],
                 [k |-> "maxAge", v |-> PyInt(34)],
                 [k |-> "value", v |-> PyFloat(25, 2)]>>),
     Age35to54 |->
        PyDict(<<[k |-> "minAge", v |-> PyInt(35)],
                 [k |-> "maxAge", v |-> PyInt(54)],
                 [k |-> "value", v |-> PyFloat(25, 2)]>>),
     Age55up |->
        PyDict(<<[k |-> "minAge", v |-> PyInt(55)],
                 [k |-> "value", v |-> PyFloat(5, 1)]>>),
     Age0to0 |->
        PyDict(<<[k |-> "minAge", v |-> PyInt(0)],
                 [k |-> "maxAge", v |-> PyInt(0)],
                 [k |-> "value", v |-> PyInt(1)]>>),
     Extra |->
        PyDict(<<[k |-> "minAge", v |-> PyInt(18)],
                 [k |-> "maxAge", v |-> PyInt(24)],
                 [k |-> "value", v |-> PyFloat(1, 1)],
                 [k |-> "label", v |-> PyStr(<<"y", "o", "u", "n", "g">>)]>>)]

\* visits_history documents.
History ==
    [April |->
        PyDict(<<[k |-> Text.Apr01, v |-> PyInt(5000)], [k |-> Text.Apr02, v |-> PyInt(5500)]>>),
     May |->
        PyDict(<<[k |-> Text.Apr02, v |-> PyInt(6000)], [k |-> Text.May01, v |-> PyInt(7000)]>>),
     BadKey |->
        PyDict(<<[k |-> Text.Apr1Short, v |-> PyInt(5)]>>),
     Negative |->
        PyDict(<<[k |-> Text.Apr01, v |-> PyInt(-1)]>>)]

\* The fixture: example.com on 2024-05-20, rank 100, changes +5 and -3.
RowA ==
    [domain |-> PyStr(Text.ExampleCom),
     snapshot_date |-> PyStr(Text.May20Stamp),
     global_rank |-> PyStr(<<"1", "0", "0">>),
     total_visits |-> PyStr(<<"1", "0", "0", "0", "0">>),
     bounce_rate |-> PyStr(<<"3", "0", "%">>),
     pages_per_visit |-> PyStr(<<"2", ".", "5">>),
     avg_visit_duration |-> PyStr(<<"0", "0", ":", "0", "5", ":", "3", "0">>),
     one_month_rank_change |-> PyStr(<<"5">>),
     two_month_rank_change |-> PyStr(<<"-", "3">>),
     visits_history |-> JsonText(History.April),
     last_month_change_in_traffic |-> PyStr(<<"1", "0", ".", "5">>),
     top_countries |-> JsonText(PyList(<<Country.UnitedStates, Country.India>>)),
     age_distribution |-> JsonText(PyList(<<Bucket.Age18to34, Bucket.Age35to54, Bucket.Age55up>>))]

\* The same website and day again, with other values everywhere.
RowA2 ==
    [RowA EXCEPT
        !.snapshot_date = PyStr(Text.May20),
        !.global_rank = PyStr(<<"9", "0">>),
        !.total_visits = PyStr(<<"2", "0", "0", "0", "0">>),
        !.bounce_rate = PyStr(<<"4", "5", ".", "5", "%">>),
        !.pages_per_visit = PyStr(<<"3">>),
        !.avg_visit_duration = PyStr(<<"0", ":", "1", "0", ":", "0", "0">>),
        !.one_month_rank_change = PyStr(<<"-", "2">>),
        !.two_month_rank_change = PyStr(<<"4">>),
        !.visits_history = JsonText(History.May),
        !.last_month_change_in_traffic = PyStr(<<"-", "1", ".", "2", "5">>),
        !.top_countries = JsonText(PyList(<<Country.India, Country.Germany>>)),
        !.age_distribution = JsonText(PyList(<<Bucket.Age18to34, Bucket.Age0to0>>))]

\* The same website one month later; every field that may be None is None
\* except the three rank fields.
RowLater ==
    [RowA EXCEPT
        !.snapshot_date = PyStr(Text.Jun20),
        !.global_rank = PyStr(<<"8", "0">>),
        !.total_visits = PyNone,
        !.bounce_rate = PyNone,
        !.pages_per_visit = PyNone,
        !.avg_visit_duration = PyNone,
        !.one_month_rank_change = PyStr(<<"7">>),
        !.two_month_rank_change = PyStr(<<"1">>),
        !.visits_history = PyNone,
        !.last_month_change_in_traffic = PyNone,
        !.top_countries = PyNone,
        !.age_distribution = PyNone]

\* Another website on the last day of March, one country listed twice.
RowOther ==
    [RowA EXCEPT
        !.domain = PyStr(Text.ShopIo),
        !.snapshot_date = PyStr(Text.Mar31),
        !.global_rank = PyStr(<<"7">>),
        !.one_month_rank_change = PyStr(<<"0">>),
        !.two_month_rank_change = PyStr(<<"0">>),
        !.visits_history = JsonText(PyDict(<<>>)),
        !.top_countries = JsonText(PyList(<<Country.UnitedStates, Country.UnitedStates>>)),
        !.age_distribution = JsonText(PyList(<<>>))]

\* The fixture with a domain the pattern rejects.
RowBadDomain ==
    [RowA EXCEPT
        !.domain = PyStr(Text.BadCom)]

\* The fixture with no global rank (a short CSV line, or a caller's None).
RowNoRank ==
    [RowA EXCEPT
        !.global_rank = PyNone]

\* The fixture with a top_countries element that lacks visitsShare.
RowBadCountries ==
    [RowA EXCEPT
        !.top_countries = JsonText(PyList(<<Country.UnitedStates, Country.NoShare>>))]

\* A CSV line with more cells than the header: csv.DictReader files the surplus
\* under the key None (its restkey), which Scrape(row) cannot take.
RowLong ==
    [k \in FieldNames \cup {"None"} |->
        IF k = "None" THEN PyList(<<PyStr(<<"x">>)>>) ELSE RowA[k]]

BatchRows ==
    {RowA, RowA2, RowLater, RowOther, RowBadDomain, RowNoRank, RowBadCountries, RowLong}

\* Other raw values a field may arrive with: well-formed ones, malformed
\* ones, None, and values that are no str.
Alternatives(name) ==
    CASE name = "domain" ->
           {PyStr(Text.ShopIo),
            PyStr(Text.BadCom),
            PyStr(Text.XCom),
            PyStr(Text.AB1Com),
            PyStr(Text.NotADomain),
            PyNone,
            PyInt(5)}
      [] name = "snapshot_date" ->
           {PyStr(Text.Mar31),
            PyStr(Text.Jan15),
            PyStr(Text.May20Late),
            PyStr(Text.Month13),
            PyStr(Text.May20Text),
            PyNone,
            PyInt(20240520)}
      [] name = "global_rank" ->
           {PyStr(<<" ", "4", "2", " ">>),
            PyStr(<<>>),
            PyStr(<<"a", "b", "c">>),
            PyStr(<<"1", ".", "5">>),
            PyNone,
            PyInt(100)}
      [] name = "total_visits" ->
           {PyStr(<<"0">>),
            PyStr(<<>>),
            PyStr(<<"1", "e", "4">>),
            PyNone,
            PyInt(10000)}
      [] name = "bounce_rate" ->
           {PyStr(<<"1", "2", ".", "5", "%">>),
            PyStr(<<"3", "0">>),
            PyStr(<<>>),
            PyStr(<<"%">>),
            PyStr(<<"a", "b", "c", "%">>),
            PyNone,
            PyFloat(3, 1)}
      [] name = "pages_per_visit" ->
           {PyStr(<<"3">>),
            PyStr(<<>>),
            PyStr(<<"2", ",", "5">>),
            PyNone,
            PyFloat(25, 1)}
      [] name = "avg_visit_duration" ->
           {PyStr(<<"0", ":", "0", "5", ":", "3", "0">>),
            PyStr(<<"1", ":", "7", "5", ":", "9", "0">>),
            PyStr(<<>>),
            PyStr(<<"5", ":", "3", "0">>),
            PyStr(<<"1", ":", "2", ":", "3", ":", "4">>),
            PyStr(<<"a", ":", "b", ":", "c">>),
            PyNone,
            PyInt(330)}
      [] name = "one_month_rank_change" ->
           {PyStr(<<"+", "4">>),
            PyStr(<<>>),
            PyStr(<<"x">>),
            PyNone,
            PyInt(5)}
      [] name = "two_month_rank_change" ->
           {PyStr(<<"1", "2">>),
            PyStr(<<>>),
            PyStr(<<"-", "-", "3">>),
            PyNone,
            PyInt(-3)}
      [] name = "visits_history" ->
           {JsonText(PyDict(<<>>)),
            JsonText(History.May),
            JsonText(History.BadKey),
            JsonText(History.Negative),
            JsonText(PyList(<<>>)),
            JsonText(Malformed),
            PyNone,
            PyInt(5)}
      [] name = "last_month_change_in_traffic" ->
           {PyStr(<<"-", "0", ".", "5">>),
            PyStr(<<>>),
            PyStr(<<"a", "b", "c">>),
            PyNone,
            PyFloat(105, 1)}
      [] name = "top_countries" ->
           {JsonText(PyList(<<>>)),
            JsonText(PyList(<<Country.Germany, Country.UnitedStates, Country.Germany>>)),
            JsonText(PyList(<<Country.UnitedStates, Country.NoShare>>)),
            JsonText(PyDict(<<>>)),
            JsonText(Malformed),
            PyNone,
            PyInt(5)}
      [] name = "age_distribution" ->
           {JsonText(PyList(<<>>)),
            JsonText(PyList(<<Bucket.Age0to0, Bucket.Age55up>>)),
            JsonText(PyList(<<Bucket.Extra>>)),
            JsonText(PyInt(5)),
            JsonText(Malformed),
            PyNone,
            PyInt(5)}

\* The fixture with up to two fields replaced.
WideRows ==
    UNION {UNION {{[[RowA EXCEPT ![f] = v] EXCEPT ![g] = w] :
                      v \in Alternatives(f) \cup {RowA[f]},
                      w \in Alternatives(g) \cup {RowA[g]}} :
                  g \in FieldNames} :
           f \in FieldNames}

(***************************************************************************)
(* load_csv_to_db: for each row, Scrape(row).persist(); a                *)
(* ValidationException is logged and the loop goes on, any other exception *)
(* leaves the function.  persist() is the five _to_<table>_table calls in  *)
(* PersistOrder; pc names the call that is next.                           *)
(***************************************************************************)
PersistOrder ==
    <<"website_scrapes", "website_global_rank", "website_total_visits",
      "top_countries", "age_distribution">>

StepIndex(table) == CHOOSE k \in 1..Len(PersistOrder) : PersistOrder[k] = table

\* The _to_<table>_table method that writes the table.
Step(table, self, db) ==
    CASE table = "website_scrapes" -> _to_website_scrapes_table(self, db)
      [] table = "website_global_rank" -> _to_website_global_rank_table(self, db)
      [] table = "website_total_visits" -> _to_website_total_visits_table(self, db)
      [] table = "top_countries" -> _to_top_countries_table(self, db)
      [] table = "age_distribution" -> _to_age_distribution_table(self, db)

\* persist() from its k-th call on: the calls run in order until one raises.
RECURSIVE persist_from(_, _, _)
persist_next(k, self, r) ==
    IF r.exc # "none" THEN [db |-> r.db, exc |-> r.exc]
    ELSE persist_from(k + 1, self, r.db)

persist_from(k, self, db) ==
    IF k > Len(PersistOrder) THEN [db |-> db, exc |-> "none"]
    ELSE persist_next(k, self, Step(PersistOrder[k], self, db))

persist(self, db) == persist_from(1, self, db)

\* The except clause of load_csv_to_db.
\* A variant of the except clause that catches every exception class.
CaughtAny(exc) == TRUE

\* except ValidationException
Caught(exc) == exc = "ValidationException"

Batches == UNION {[1..n -> BatchRows] : n \in 0..MaxRows}

InitWith(batch) ==
    /\ csv_data = batch
    /\ idx = 1
    /\ pc = "construct"
    /\ scrape = PyNone
    /\ validated = <<>>
    /\ tables = EmptyDatabase
    /\ calls = <<>>
    /\ outcome = <<>>
    /\ raised = "none"
    /\ snap = <<>>
    /\ written = [n \in TableNames |-> <<>>]
    /\ _instances = <<>>
    /\ connections = <<>>
    /\ handles = <<>>
    /\ result = [op |-> "none"]
    /\ data_points = <<>>

Init == \E batch \in Batches : InitWith(batch)

\* One row of WideRows, loaded into an empty store or after RowA2.
InitWide == \E row \in WideRows, before \in {<<>>, <<RowA2>>} : InitWith(before \o <<row>>)

\* A variant of the end of a row that takes a row whose exception was caught
\* up again instead of moving on.
EndRowRetry(exc, db) ==
    /\ snap' = Append(snap, db)
    /\ scrape' = PyNone
    /\ IF exc = "none"
       THEN /\ outcome' = Append(outcome, "persisted")
            /\ idx' = idx + 1
            /\ pc' = "construct"
            /\ raised' = raised
       ELSE IF Caught(exc)
       THEN /\ outcome' = outcome
            /\ idx' = idx
            /\ pc' = "construct"
            /\ raised' = raised
       ELSE /\ outcome' = Append(outcome, "crashed")
            /\ idx' = idx
            /\ pc' = "crashed"
            /\ raised' = exc

\* The row is over: persisted, or its exception was caught and logged
\* ("failed"), or its exception left load_csv_to_db ("crashed").
EndRow(exc, db) ==
    /\ snap' = Append(snap, db)
    /\ scrape' = PyNone
    /\ IF exc = "none" \/ Caught(exc)
       THEN /\ outcome' = Append(outcome, IF exc = "none" THEN "persisted" ELSE "failed")
            /\ idx' = idx + 1
            /\ pc' = "construct"
            /\ raised' = raised
       ELSE /\ outcome' = Append(outcome, "crashed")
            /\ idx' = idx
            /\ pc' = "crashed"
            /\ raised' = exc

\* Scrape(row): construction with validation.
Construct ==
    /\ pc = "construct"
    /\ idx <= Len(csv_data)
    /\ \E r \in {ScrapeInit(csv_data[idx])} :
           /\ validated' = r.ran
           /\ calls' = <<>>
           /\ IF r.ok
              THEN /\ scrape' = r.self
                   /\ pc' = PersistOrder[1]
                   /\ UNCHANGED <<idx, outcome, raised, snap>>
              ELSE EndRow(r.exc, tables)
    /\ UNCHANGED <<csv_data, tables, written>>
    /\ UNCHANGED aside

\* One _to_<table>_table call of persist().
PersistStep(table) ==
    /\ pc = table
    /\ \E r \in {Step(table, scrape, tables)} :
           /\ tables' = r.db
           /\ calls' = calls \o r.issued
           /\ written' = [written EXCEPT
                             ![table] = @ \o StoreRows(r.db[table].cols, r.stored)]
           /\ IF r.exc = "none" /\ StepIndex(table) < Len(PersistOrder)
              THEN /\ pc' = PersistOrder[StepIndex(table) + 1]
                   /\ UNCHANGED <<idx, scrape, outcome, raised, snap>>
              ELSE EndRow(r.exc, r.db)
    /\ UNCHANGED <<csv_data, validated>>
    /\ UNCHANGED aside

ToWebsiteScrapes == PersistStep("website_scrapes")

ToWebsiteGlobalRank == PersistStep("website_global_rank")

ToWebsiteTotalVisits == PersistStep("website_total_visits")

ToTopCountries == PersistStep("top_countries")

ToAgeDistribution == PersistStep("age_distribution")

\* The for loop is exhausted: load_csv_to_db returns.
Return ==
    /\ pc = "construct"
    /\ idx > Len(csv_data)
    /\ pc' = "done"
    /\ UNCHANGED <<csv_data, idx, scrape, validated, tables, calls, outcome, raised,
                   snap, written>>
    /\ UNCHANGED aside

Next ==
    \/ Construct
    \/ ToWebsiteScrapes
    \/ ToWebsiteGlobalRank
    \/ ToWebsiteTotalVisits
    \/ ToTopCountries
    \/ ToAgeDistribution
    \/ Return

Spec == Init /\ [][Next]_vars

SpecWide == InitWide /\ [][Next]_vars

\* ---------------------------------------------------------------------------
\* The CSV hand-off of main: export_url_content_to_csv writes the data points
\* with to_csv, load_csv_to_db reads the file back with load_csv.
MaxPoints == 2

\* str(x) of a float: the shortest decimal, with at least one fractional digit.
float_str(f) ==
    (IF f.n < 0 THEN <<"-">> ELSE <<>>)
        \o IntToChars((IF f.n < 0 THEN -f.n ELSE f.n) \div (10 ^ f.e))
        \o <<".">>
        \o (IF f.e = 0 THEN <<"0">>
            ELSE ZeroPad(IntToChars((IF f.n < 0 THEN -f.n ELSE f.n) % (10 ^ f.e)), f.e))

\* csv.writer: None is written as the empty cell, any other value as str(value).
\* A cell is the text of the file between two delimiters, as a str.
writer_cell(value) ==
    IF value = PyNone THEN PyStr(<<>>)
    ELSE IF value.t = "str" THEN value
    ELSE IF value.t = "int" THEN PyStr(IntToChars(value.v))
    ELSE PyStr(float_str(value))

\* A reader that gives None for an empty cell.
reader_cell_or_none(cell) == IF cell = PyStr(<<>>) THEN PyNone ELSE cell

\* csv.DictReader: every cell of a full line is read as a str, the empty
\* cell as "".
reader_cell(cell) == cell

\* to_csv then load_csv: one line per data point, under the keys of the header.
to_csv(points) == [k \in 1..Len(points) |-> [f \in DOMAIN points[k] |-> writer_cell(points[k][f])]]

load_csv(lines) == [k \in 1..Len(lines) |-> [f \in DOMAIN lines[k] |-> reader_cell(lines[k][f])]]

\* extract_data_points: the numbers of the JSON document as int and float,
\* None for a key the document lacks, the sub-documents as json.dumps text.
PointA ==
    [RowA EXCEPT
        !.global_rank = PyInt(100),
        !.total_visits = PyInt(10000),
        !.pages_per_visit = PyFloat(25, 1),
        !.one_month_rank_change = PyInt(5),
        !.two_month_rank_change = PyInt(-3),
        !.last_month_change_in_traffic = PyFloat(105, 1)]

PointOther ==
    [RowOther EXCEPT
        !.global_rank = PyInt(7),
        !.total_visits = PyInt(10000),
        !.pages_per_visit = PyFloat(3, 0),
        !.one_month_rank_change = PyInt(0),
        !.two_month_rank_change = PyInt(0),
        !.last_month_change_in_traffic = PyFloat(-5, 2)]

NumericPointFields ==
    {"global_rank", "total_visits", "pages_per_visit", "one_month_rank_change",
     "two_month_rank_change", "last_month_change_in_traffic"}

DataPoints ==
    {PointA, PointOther}
        \cup {[PointA EXCEPT ![f] = PyNone] : f \in NumericPointFields}
        \cup {[PointOther EXCEPT !.total_visits = PyNone, !.last_month_change_in_traffic = PyNone],
              [PointA EXCEPT !.bounce_rate = PyNone, !.avg_visit_duration = PyNone]}

InitHandOff ==
    /\ csv_data = <<>>
    /\ idx = 1
    /\ pc = "export"
    /\ scrape = PyNone
    /\ validated = <<>>
    /\ tables = EmptyDatabase
    /\ calls = <<>>
    /\ outcome = <<>>
    /\ raised = "none"
    /\ snap = <<>>
    /\ written = [n \in TableNames |-> <<>>]
    /\ _instances = <<>>
    /\ connections = <<>>
    /\ handles = <<>>
    /\ result = [op |-> "none"]
    /\ data_points = <<>>

\* export_url_content_to_csv(...) and the load_csv call of load_csv_to_db
ExportAndLoad ==
    /\ pc = "export"
    /\ \E n \in 1..MaxPoints :
           \E points \in [1..n -> DataPoints] :
               /\ data_points' = points
               /\ csv_data' = load_csv(to_csv(points))
    /\ pc' = "construct"
    /\ UNCHANGED <<idx, scrape, validated, tables, calls, outcome, raised, snap, written>>
    /\ UNCHANGED <<_instances, connections, handles, result>>

NextHandOff == ExportAndLoad \/ Next

SpecHandOff == InitHandOff /\ [][NextHandOff]_vars

(***************************************************************************)
(* The Database class: _SQLite3Singleton.__call__ keeps one instance per   *)
(* key in _instances, where the key is args[0] if there are positional     *)
(* arguments and kwargs.get("database_path") otherwise (None when the path *)
(* is left to its default); Database.__init__ opens the connection.        *)
(***************************************************************************)
MaxCalls == 4

DefaultPath == "./resources/sqlite.db"

DatabasePaths == {DefaultPath, ":memory:", "/tmp/scrapes.db"}

\* Database(path), Database(database_path=path) and Database().
DatabaseCalls ==
    {[form |-> f, path |-> p] : f \in {"positional", "keyword"}, p \in DatabasePaths}
        \cup {[form |-> "default", path |-> "None"]}

\* database_path = args[0] if args else kwargs.get("database_path")
SingletonKey(call) == IF call.form = "default" THEN "None" ELSE call.path

\* Database.__init__(database_path="./resources/sqlite.db"): the path connected to.
ConnectPath(call) == IF call.form = "default" THEN DefaultPath ELSE call.path

\* _SQLite3Singleton.__call__
SingletonCall(call) ==
    /\ Len(handles) < MaxCalls
    /\ \E key \in {SingletonKey(call)} :
           IF key \in DOMAIN _instances
           THEN /\ handles' = Append(handles, [call |-> call, instance |-> _instances[key]])
                /\ UNCHANGED <<_instances, connections>>
           ELSE /\ connections' = Append(connections, ConnectPath(call))
                /\ _instances' = [k \in DOMAIN _instances \cup {key} |->
                                     IF k = key THEN Len(connections) + 1 ELSE _instances[k]]
                /\ handles' = Append(handles, [call |-> call, instance |-> Len(connections) + 1])
    /\ UNCHANGED <<loader, result, data_points>>

\* Database(...) called by a caller with a path of its own.
NewDatabase == \E call \in DatabaseCalls : call.form # "default" /\ SingletonCall(call)

\* Database() as the default_factory of Scrape.db calls it.
DefaultFactory == SingletonCall([form |-> "default", path |-> "None"])

InitDatabase == InitWith(<<>>)

NextDatabase == NewDatabase \/ DefaultFactory

SpecDatabase == InitDatabase /\ [][NextDatabase]_vars

(***************************************************************************)
(* Direct use of a Database: create_table, insert_records and execute_sql  *)
(* called one after the other, each under _with_cursor.  calls is the      *)
(* history of these calls, tables the committed database.                  *)
(***************************************************************************)
MaxStoreCalls == 4

\* A record (website, snapshot_date, value).
ValueRecord(website, day, value) == <<PyStr(website), PyStr(day), PyInt(value)>>

\* The records of the fixture of analyse/tests/test_analyse.py.
GrowthRecords ==
    <<ValueRecord(Text.ExampleCom, Text.Jan01, 100),
      ValueRecord(Text.ExampleCom, Text.Feb01, 100),
      ValueRecord(Text.ExampleCom, Text.Mar01, 90),
      ValueRecord(Text.AnotherCom, Text.Jan01, 200),
      ValueRecord(Text.AnotherCom, Text.Feb01, 180),
      ValueRecord(Text.AnotherCom, Text.Mar01, 90)>>

\* Lists of records handed to insert_records: the fixture, single records
\* (a zero value, a value after it, a value under a key of the fixture, a
\* website of its own), and a list whose second record lacks two values.
StoreBatches ==
    {GrowthRecords,
     <<ValueRecord(Text.ExampleCom, Text.Apr01, 0)>>,
     <<ValueRecord(Text.ExampleCom, Text.May01, 100)>>,
     <<ValueRecord(Text.ExampleCom, Text.Feb01, 30)>>,
     <<ValueRecord(Text.ShopIo, Text.Jan01, 5)>>,
     <<ValueRecord(Text.AnotherCom, Text.Apr01, 10), <<PyStr(Text.AnotherCom)>>>>}

\* The statements handed to execute_sql: SELECT * FROM <table>; and
\* DELETE FROM <table>;
Statements ==
    {[kind |-> "select", table |-> "website_total_visits"],
     [kind |-> "delete", table |-> "website_total_visits"]}

\* The body of execute_sql: cur.execute(sql), then the rows fetched if the
\* statement has a result set and [] if not.
ExecuteBody(db, sql) ==
    IF ~db[sql.table].exists THEN [db |-> db, exc |-> "OperationalError", rows |-> <<>>]
    ELSE IF sql.kind = "select" THEN [db |-> db, exc |-> "none", rows |-> db[sql.table].rows]
    ELSE [db |-> [db EXCEPT ![sql.table].rows = <<>>], exc |-> "none", rows |-> <<>>]

execute_sql(db, sql) ==
    [ret |-> _with_cursor(db, ExecuteBody(db, sql)),
     rows |-> ExecuteBody(db, sql).rows]

\* The characters of the texts of the model in the order of their codes,
\* which is the order SQLite compares TEXT in (BINARY collation).
CodeOrder ==
    <<"-", ".", "0", "1", "2", "3", "4", "5", "6", "7", "8", "9",
      "a", "b", "c", "d", "e", "f", "g", "h", "i", "j", "k", "l", "m",
      "n", "o", "p", "q", "r", "s", "t", "u", "v", "w", "x", "y", "z">>

Code(c) == CHOOSE k \in 1..Len(CodeOrder) : CodeOrder[k] = c

RECURSIVE TextLess(_, _)
TextLess(a, b) ==
    IF b = <<>> THEN FALSE
    ELSE IF a = <<>> THEN TRUE
    ELSE IF Head(a) = Head(b) THEN TextLess(Tail(a), Tail(b))
    ELSE Code(Head(a)) < Code(Head(b))

\* ORDER BY website, snapshot_date
OrderedBefore(r1, r2) ==
    \/ TextLess(r1[1].s, r2[1].s)
    \/ r1[1] = r2[1] /\ TextLess(r1[2].s, r2[2].s)

RECURSIVE InsertOrdered(_, _)
InsertOrdered(r, sorted) ==
    IF sorted = <<>> THEN <<r>>
    ELSE IF OrderedBefore(r, Head(sorted)) THEN <<r>> \o sorted
    ELSE <<Head(sorted)>> \o InsertOrdered(r, Tail(sorted))

RECURSIVE OrderRows(_)
OrderRows(rows) ==
    IF rows = <<>> THEN <<>> ELSE InsertOrdered(Head(rows), OrderRows(Tail(rows)))

\* A variant of LAG that takes the first value of the partition.
FirstValue(sorted, i, c) ==
    IF i > 1 /\ sorted[i - 1][1] = sorted[i][1]
    THEN sorted[CHOOSE j \in 1..i : /\ sorted[j][1] = sorted[i][1]
                                    /\ \A k \in 1..(j - 1) : sorted[k][1] # sorted[i][1]][c]
    ELSE PyNone

\* LAG(column) OVER (PARTITION BY website ORDER BY snapshot_date): the value
\* in the preceding row of the same website, NULL for its first row.
Lag(sorted, i, c) ==
    IF i > 1 /\ sorted[i - 1][1] = sorted[i][1] THEN sorted[i - 1][c] ELSE PyNone

RECURSIVE Gcd(_, _)
Gcd(a, b) == IF b = 0 THEN a ELSE Gcd(b, a % b)

Abs(n) == IF n < 0 THEN -n ELSE n

\* A REAL that is the quotient num / den, in lowest terms.
Real(num, den) ==
    [t |-> "real",
     num |-> (IF den < 0 THEN -num ELSE num) \div Gcd(Abs(num), Abs(den)),
     den |-> Abs(den) \div Gcd(Abs(num), Abs(den))]

\* (val - prev_val) * 100.0 / prev_val: NULL when an operand is NULL and
\* when the divisor is 0.
ChangePercentage(val, prev_val) ==
    IF val = PyNone \/ prev_val = PyNone THEN PyNone
    ELSE IF prev_val.v = 0 THEN PyNone
    ELSE Real((val.v - prev_val.v) * 100, prev_val.v)

\* The query of calculate_month_on_month_growth over the rows of the table.
GrowthQuery(sorted, c) ==
    LET kept == {i \in 1..Len(sorted) : Lag(sorted, i, c) # PyNone}
        row(i) == <<sorted[i][1], sorted[i][2], sorted[i][c], Lag(sorted, i, c),
                    ChangePercentage(sorted[i][c], Lag(sorted, i, c))>>
    IN  [n \in 1..Cardinality(kept) |->
            row(CHOOSE i \in kept : Cardinality({j \in kept : j < i}) = n - 1)]

\* calculate_month_on_month_growth(table, column, db): db.execute_sql(sql).
calculate_month_on_month_growth(table, column, db) ==
    IF ~db[table].exists THEN [exc |-> "OperationalError", rows |-> <<>>]
    ELSE [exc |-> "none",
          rows |-> GrowthQuery(OrderRows(db[table].rows),
                               ColumnIndex(db[table].cols, column))]

\* One direct call: the committed database, the call and its result.
StoreCall(db, call, exc, rows) ==
    /\ Len(calls) < MaxStoreCalls
    /\ tables' = db
    /\ calls' = Append(calls, call)
    /\ result' = [op |-> call[1], table |-> call[2], exc |-> exc, rows |-> rows]
    /\ UNCHANGED <<csv_data, idx, pc, scrape, validated, outcome, raised, snap, written>>
    /\ UNCHANGED <<_instances, connections, handles, data_points>>

StoreCreateTable ==
    \E table \in {"website_global_rank", "website_total_visits"} :
        StoreCall(CreateTable(table, tables), <<"create_table", table>>, "none", <<>>)

StoreInsertRecords ==
    \E table \in {"website_global_rank", "website_total_visits"}, records \in StoreBatches :
        /\ table = "website_global_rank" => records = GrowthRecords
        /\ \E r \in {insert_records(tables, table, records)} :
               StoreCall(r.db, <<"insert_records", table, records>>, r.exc, <<>>)

StoreExecuteSql ==
    \E sql \in Statements :
        \E r \in {execute_sql(tables, sql)} :
            StoreCall(r.ret.db, <<"execute_sql", sql.table, sql.kind>>, r.ret.exc,
                      IF r.ret.ok THEN r.rows ELSE <<>>)

\* calculate_month_on_month_website_global_rank_growth and
\* calculate_month_on_month_website_total_visits_growth
StoreGrowth ==
    \E call \in {<<"calculate_month_on_month_growth", "website_global_rank", "global_rank">>,
                 <<"calculate_month_on_month_growth", "website_total_visits", "total_visits">>} :
        \E r \in {calculate_month_on_month_growth(call[2], call[3], tables)} :
            StoreCall(tables, call, r.exc, r.rows)

NextStore == StoreCreateTable \/ StoreInsertRecords \/ StoreExecuteSql \/ StoreGrowth

SpecStore == InitWith(<<>>) /\ [][NextStore]_vars

(***************************************************************************)
(* Properties of the loader, of construction and of persist.               *)
(***************************************************************************)
\* The row that validated and calls belong to: the row being persisted or,
\* between rows, the row that was processed last (0 before the first).
Current == IF pc \in TableNames THEN idx ELSE Len(outcome)

\* The database as row k found it.
Before(k) == IF k = 1 THEN EmptyDatabase ELSE snap[k - 1]

\* The row has exactly the keys Scrape takes.
WellFormed(row) == DOMAIN row = FieldNames

\* The fields whose own validator rejects the raw value of the row.
InvalidFields(row) == {f \in FieldNames : ~ValidateField(f, row[f]).ok}

Constructs(row) == WellFormed(row) /\ InvalidFields(row) = {}

\* C1: all-or-nothing on validation.  A row with any field that its validator
\* rejects ends as a logged failure of construction: the validator that ran
\* last is one that rejects its field, no create_table or insert_records call
\* was issued for the row, and all five tables are as the row found them.
C1_AllOrNothing ==
    \A k \in {Current} \cap (1..Len(csv_data)) :
        (WellFormed(csv_data[k]) /\ InvalidFields(csv_data[k]) # {}) =>
            /\ pc \notin TableNames
            /\ outcome[k] = "failed"
            /\ validated # <<>>
            /\ validated[Len(validated)] \in InvalidFields(csv_data[k])
            /\ calls = <<>>
            /\ tables = Before(k)
            /\ snap[k] = Before(k)

\* A row whose last field alone is invalid has failed after a stored row, and
\* the store still holds what the stored row wrote.
C1_Witness ==
    /\ pc = "done"
    /\ outcome = <<"persisted", "failed">>
    /\ InvalidFields(csv_data[2]) = {"age_distribution"}
    /\ Len(validated) = Len(FieldOrder)
    /\ calls = <<>>
    /\ tables = snap[1]
    /\ Len(tables["age_distribution"].rows) > 0

HasRankRow(website, day) ==
    \E j \in 1..Len(tables["website_global_rank"].rows) :
        /\ tables["website_global_rank"].rows[j][1] = website
        /\ tables["website_global_rank"].rows[j][2] = day

\* C2: persist of every constructed record runs to completion.  Every row
\* that constructs ends persisted, and between rows every website_scrapes row
\* has a website_global_rank row of the same website and day.
C2_PersistCompletes ==
    /\ \A k \in 1..Len(outcome) : Constructs(csv_data[k]) => outcome[k] = "persisted"
    /\ pc \notin TableNames =>
           \A i \in 1..Len(tables["website_scrapes"].rows) :
               HasRankRow(tables["website_scrapes"].rows[i][1],
                          tables["website_scrapes"].rows[i][2])

\* C3: per-row failure isolation.  When load_csv_to_db is over for a batch of
\* well-formed rows, every row after a row that failed validation has been
\* constructed, and persisted if it is valid, and the failed row left the
\* store as it was; a batch of three rows of which only the second is
\* invalid, by its domain, ends with rows 1 and 3 persisted and one failure.
C3_FailureIsolation ==
    (pc \in {"done", "crashed"} /\ \A j \in 1..Len(csv_data) : WellFormed(csv_data[j])) =>
        /\ \A i \in 1..Len(outcome) :
               outcome[i] = "failed" =>
                   /\ snap[i] = Before(i)
                   /\ \A j \in (i + 1)..Len(csv_data) :
                          /\ j <= Len(outcome)
                          /\ Constructs(csv_data[j]) => outcome[j] = "persisted"
        /\ ( /\ Len(csv_data) = 3
             /\ Len(outcome) >= 2
             /\ outcome[1] = "persisted"
             /\ outcome[2] = "failed"
             /\ InvalidFields(csv_data[2]) = {"domain"}
             /\ Constructs(csv_data[3]) ) =>
               outcome = <<"persisted", "failed", "persisted">>

\* The raw row gives no value to one of the three fields that
\* _to_website_global_rank_table adds up.
RankMissing(row) ==
    \E f \in {"global_rank", "one_month_rank_change", "two_month_rank_change"} :
        row[f] = PyNone

\* C4: an exception that is no ValidationException is not caught.  A row that
\* raises one (a TypeError of construction for a row with a surplus key, a
\* TypeError of persist for a record without a rank value) is the last row
\* processed: load_csv_to_db has ended with that exception and no later row
\* is constructed.
C4_OtherErrorsPropagate ==
    /\ \A k \in 1..Len(outcome) :
           outcome[k] = "crashed" =>
               /\ k = Len(outcome)
               /\ idx = k
               /\ pc = "crashed"
               /\ raised \notin {"none", "ValidationException"}
    /\ pc = "crashed" => (outcome # <<>> /\ outcome[Len(outcome)] = "crashed")
    /\ pc # "crashed" => raised = "none"
    /\ \A k \in {Current} \cap (1..Len(csv_data)) :
           ( /\ pc \notin TableNames
             /\ \/ ~WellFormed(csv_data[k])
                \/ (Constructs(csv_data[k]) /\ RankMissing(csv_data[k])) ) =>
               (outcome[k] = "crashed" /\ raised = "TypeError")

\* A TypeError has ended the batch at its second row with a row left over.
C4_Witness ==
    /\ pc = "crashed"
    /\ raised = "TypeError"
    /\ idx = 2
    /\ Len(csv_data) = 3
    /\ outcome[1] = "persisted"
    /\ Len(outcome) = 2

\* C5: validation order.  The validator of domain runs first and that of
\* snapshot_date second.  A row whose domain is None or invalid fails with
\* only the domain validator having run; a row with a valid domain whose
\* snapshot_date is None or invalid fails with only these two having run;
\* either way no Database call is issued and the store is as it was.
C5_ValidationOrder ==
    \A k \in {Current} \cap (1..Len(csv_data)) :
        WellFormed(csv_data[k]) =>
            /\ validated # <<>>
            /\ validated[1] = "domain"
            /\ Len(validated) >= 2 => validated[2] = "snapshot_date"
            /\ ~_validate_domain(csv_data[k]["domain"]).ok =>
                   /\ validated = <<"domain">>
                   /\ pc \notin TableNames
                   /\ outcome[k] = "failed"
                   /\ calls = <<>>
                   /\ tables = Before(k)
            /\ ( /\ _validate_domain(csv_data[k]["domain"]).ok
                 /\ ~_validate_snapshot_date(csv_data[k]["snapshot_date"]).ok ) =>
                   /\ validated = <<"domain", "snapshot_date">>
                   /\ pc \notin TableNames
                   /\ outcome[k] = "failed"
                   /\ calls = <<>>
                   /\ tables = Before(k)

\* A row without snapshot_date and with a second invalid field has failed
\* after the two first validators, the second invalid field never looked at.
C5_Witness ==
    /\ pc = "done"
    /\ csv_data[Len(csv_data)]["snapshot_date"] = PyNone
    /\ Cardinality(InvalidFields(csv_data[Len(csv_data)])) = 2
    /\ validated = <<"domain", "snapshot_date">>
    /\ outcome[Len(outcome)] = "failed"

\* The optional scalar fields of Scrape with the type each is coerced to.
OptionalScalars ==
    [global_rank |-> "int", total_visits |-> "int", bounce_rate |-> "float",
     pages_per_visit |-> "float", avg_visit_duration |-> "int",
     one_month_rank_change |-> "int", two_month_rank_change |-> "int",
     last_month_change_in_traffic |-> "float"]

Min(a, b) == IF a < b THEN a ELSE b

\* The day k calendar months before d (k <= 12): the month that lies k months
\* back, and the day of d or the last day of that month if it is shorter.
MonthsBefore(d, k) ==
    LET ym == CHOOSE ym \in ((d.y - 1)..d.y) \X (1..12) :
                  12 * ym[1] + ym[2] = 12 * d.y + d.m - k
    IN  PyDate(ym[1], ym[2], Min(d.d, DaysInMonth(ym[1], ym[2])))

RankRow(website, d, rank) == <<website, PyStr(isoformat(d)), PyInt(rank)>>

ExpectedRankRows(self) ==
    <<RankRow(self.domain, self.snapshot_date, self.global_rank.v),
      RankRow(self.domain, MonthsBefore(self.snapshot_date, 1),
              self.global_rank.v + self.one_month_rank_change.v),
      RankRow(self.domain, MonthsBefore(self.snapshot_date, 2),
              self.global_rank.v - self.two_month_rank_change.v)>>

\* The rows of a table that none of the given rows replaces by website and day.
KeptRows(rows, new) ==
    SelectSeq(rows, LAMBDA row : \A k \in 1..Len(new) :
                                     <<row[1], row[2]>> # <<new[k][1], new[k][2]>>)

Apr20 == <<"2", "0", "2", "4", "-", "0", "4", "-", "2", "0">>
Mar20 == <<"2", "0", "2", "4", "-", "0", "3", "-", "2", "0">>

\* C7: derived global-rank rows.  Once _to_website_global_rank_table has run
\* for a record with day d, rank r and changes c1 and c2, the table holds the
\* rows it held before under other keys, followed by exactly (d, r),
\* (d - 1 month, r + c1) and (d - 2 months, r - c2), whose three days differ;
\* for 2024-05-20, 100, 5 and -3 these are (2024-05-20, 100),
\* (2024-04-20, 105) and (2024-03-20, 103).
C7_DerivedRankRows ==
    pc \in {"website_total_visits", "top_countries", "age_distribution"} =>
        /\ Cardinality({ExpectedRankRows(scrape)[k][2] : k \in 1..3}) = 3
        /\ tables["website_global_rank"].rows =
               KeptRows(Before(idx)["website_global_rank"].rows, ExpectedRankRows(scrape))
                   \o ExpectedRankRows(scrape)
        /\ ( /\ scrape.domain = PyStr(Text.ExampleCom)
             /\ scrape.snapshot_date = PyDate(2024, 5, 20)
             /\ scrape.global_rank = PyInt(100)
             /\ scrape.one_month_rank_change = PyInt(5)
             /\ scrape.two_month_rank_change = PyInt(-3) ) =>
               SubSeq(tables["website_global_rank"].rows,
                      Len(tables["website_global_rank"].rows) - 2,
                      Len(tables["website_global_rank"].rows)) =
                   <<<<PyStr(Text.ExampleCom), PyStr(Text.May20), PyInt(100)>>,
                     <<PyStr(Text.ExampleCom), PyStr(Apr20), PyInt(105)>>,
                     <<PyStr(Text.ExampleCom), PyStr(Mar20), PyInt(103)>>>>

\* The rank rows of the fixture record have just been written into an empty
\* table.
C7_Witness ==
    /\ pc = "website_total_visits"
    /\ idx = 1
    /\ scrape.snapshot_date = PyDate(2024, 5, 20)
    /\ scrape.global_rank = PyInt(100)
    /\ scrape.one_month_rank_change = PyInt(5)
    /\ scrape.two_month_rank_change = PyInt(-3)
    /\ Len(tables["website_global_rank"].rows) = 3

\* C8: idempotence of persist.  A row processed right after an equal row
\* leaves all five tables exactly as the first left them, and from every
\* store state a record is persisted in, persisting it a second time right
\* after the first changes nothing.
C8_PersistIdempotent ==
    /\ \A k \in 1..(Len(snap) - 1) :
           csv_data[k] = csv_data[k + 1] => snap[k + 1] = snap[k]
    /\ pc \in TableNames =>
           persist(scrape, persist(scrape, tables).db) = persist(scrape, tables)

\* The same valid row was persisted twice in a row into a store that already
\* held rows of another record.
C8_Witness ==
    /\ pc = "done"
    /\ outcome = <<"persisted", "persisted", "persisted">>
    /\ csv_data[1] # csv_data[2]
    /\ csv_data[2] = csv_data[3]
    /\ snap[3] = snap[2]
    /\ snap[2] # snap[1]

\* The primary key persist declares for each table.
DeclaredKey ==
    [website_scrapes |-> <<"website", "snapshot_date">>,
     website_global_rank |-> <<"website", "snapshot_date">>,
     website_total_visits |-> <<"website", "snapshot_date">>,
     top_countries |-> <<"website", "snapshot_date", "country">>,
     age_distribution |-> <<"website", "snapshot_date", "age_group_label">>]

KeyOf(n, row) ==
    [k \in 1..Len(DeclaredKey[n]) |-> row[ColumnIndex(tables[n].cols, DeclaredKey[n][k])]]

\* C9: upsert invariant.  Every table that exists has the key persist
\* declares for it and holds no two rows with the same key; every row it
\* holds is the row of the latest insert_records write under its key, and
\* every key ever written is held.
C9_UpsertInvariant ==
    \A n \in TableNames :
        IF ~tables[n].exists THEN tables[n].rows = <<>> /\ written[n] = <<>>
        ELSE /\ tables[n].pk = DeclaredKey[n]
             /\ \A i, j \in 1..Len(tables[n].rows) :
                    i # j => KeyOf(n, tables[n].rows[i]) # KeyOf(n, tables[n].rows[j])
             /\ \A i \in 1..Len(tables[n].rows) :
                    \E w \in 1..Len(written[n]) :
                        /\ written[n][w] = tables[n].rows[i]
                        /\ \A v \in (w + 1)..Len(written[n]) :
                               KeyOf(n, written[n][v]) # KeyOf(n, tables[n].rows[i])
             /\ \A w \in 1..Len(written[n]) :
                    \E i \in 1..Len(tables[n].rows) :
                        KeyOf(n, tables[n].rows[i]) = KeyOf(n, written[n][w])

\* A website_scrapes key was written twice with different values, and the
\* table holds one row.
C9_Witness ==
    /\ pc = "done"
    /\ Len(tables["website_scrapes"].rows) = 1
    /\ Len(written["website_scrapes"]) = 2
    /\ written["website_scrapes"][1] # written["website_scrapes"][2]
    /\ KeyOf("website_scrapes", written["website_scrapes"][1])
           = KeyOf("website_scrapes", written["website_scrapes"][2])

\* C10: visit-history fan-out.  When the only row of a batch has been
\* constructed and load_csv_to_db is over, website_total_visits holds one row
\* (domain, date, count) for each pair of the row's visits_history and no
\* other row.
C10_VisitHistoryFanOut ==
    (Len(csv_data) = 1 /\ pc \in {"done", "crashed"} /\ Constructs(csv_data[1])) =>
        /\ Len(tables["website_total_visits"].rows)
               = Len(_validate_visits_history(csv_data[1]["visits_history"]).val.m)
        /\ \A k \in 1..Len(_validate_visits_history(csv_data[1]["visits_history"]).val.m) :
               \E i \in 1..Len(tables["website_total_visits"].rows) :
                   tables["website_total_visits"].rows[i] =
                       <<csv_data[1]["domain"],
                         PyStr(_validate_visits_history(csv_data[1]["visits_history"]).val.m[k].k),
                         _validate_visits_history(csv_data[1]["visits_history"]).val.m[k].v>>

\* The label the labeling rule gives a bucket: "<minAge> - <maxAge>" when the
\* bucket has a maxAge, "<minAge>+" when it has none.
BucketLabel(bucket) ==
    IF DictHas(bucket, "maxAge")
    THEN FormatNumber(DictGet(bucket, "minAge")) \o <<" ", "-", " ">>
             \o FormatNumber(DictGet(bucket, "maxAge"))
    ELSE FormatNumber(DictGet(bucket, "minAge")) \o <<"+">>

\* C11: age-bucket labeling.  For every bucket of an accepted
\* age_distribution document the record's age_distribution has the key
\* "<minAge> - <maxAge>" if the bucket has a maxAge (0 included) and
\* "<minAge>+" if it has none, and the key maps to the value of the last
\* bucket with that label.
C11_AgeBucketLabels ==
    (pc \in TableNames /\ csv_data[idx]["age_distribution"] # PyNone) =>
        \A k \in 1..Len(csv_data[idx]["age_distribution"].json.a) :
            /\ DictHas(scrape["age_distribution"],
                       BucketLabel(csv_data[idx]["age_distribution"].json.a[k]))
            /\ (\A j \in (k + 1)..Len(csv_data[idx]["age_distribution"].json.a) :
                    BucketLabel(csv_data[idx]["age_distribution"].json.a[j])
                        # BucketLabel(csv_data[idx]["age_distribution"].json.a[k])) =>
                   DictGet(scrape["age_distribution"],
                           BucketLabel(csv_data[idx]["age_distribution"].json.a[k]))
                       = DictGet(csv_data[idx]["age_distribution"].json.a[k], "value")

\* The domain grammar as stated: two or more dot-separated labels, each a
\* non-empty run of alphanumerics and hyphens with an alphanumeric at both
\* ends, the last label two or more letters.
DomainGrammar(chars) ==
    /\ Len(split(chars, ".")) >= 2
    /\ \A p \in 1..Len(split(chars, ".")) :
           /\ split(chars, ".")[p] # <<>>
           /\ \A k \in 1..Len(split(chars, ".")[p]) :
                  IsAlnum(split(chars, ".")[p][k]) \/ split(chars, ".")[p][k] = "-"
           /\ IsAlnum(Head(split(chars, ".")[p]))
           /\ IsAlnum(split(chars, ".")[p][Len(split(chars, ".")[p])])
    /\ Len(split(chars, ".")[Len(split(chars, "."))]) >= 2
    /\ \A k \in 1..Len(split(chars, ".")[Len(split(chars, "."))]) :
           IsLetter(split(chars, ".")[Len(split(chars, "."))][k])

\* C12: domain grammar.  Construction gets past the domain validator (a
\* second validator runs) exactly when the domain string follows the grammar:
\* "example.com", "x.com" and "a.b-1.com" do, "not a domain", "-bad.com" and
\* single labels do not.
C12_DomainGrammar ==
    \A k \in {Current} \cap (1..Len(csv_data)) :
        (WellFormed(csv_data[k]) /\ csv_data[k]["domain"].t = "str") =>
            (DomainGrammar(csv_data[k]["domain"].s) <=> Len(validated) >= 2)


\* The three fields that arrive as JSON text.
JsonFields == {"visits_history", "top_countries", "age_distribution"}

\* A key of the form YYYY-MM-DD.
IsYmdKey(chars) ==
    /\ Len(chars) = 10
    /\ \A k \in {1, 2, 3, 4, 6, 7, 9, 10} : IsDigit(chars[k])
    /\ chars[5] = "-" /\ chars[8] = "-"

\* The structure each JSON document is to have: the key sets of its members.
StructureOk(name, doc) ==
    CASE name = "visits_history" ->
           /\ doc.t = "dict"
           /\ \A k \in 1..Len(doc.m) :
                  IsYmdKey(doc.m[k].k) /\ IsJsonInteger(doc.m[k].v) /\ NumSign(doc.m[k].v) >= 0
      [] name = "top_countries" ->
           /\ doc.t = "list"
           /\ \A k \in 1..Len(doc.a) :
                  doc.a[k].t = "dict" /\ DictKeys(doc.a[k]) = TopCountryKeys
      [] name = "age_distribution" ->
           /\ doc.t = "list"
           /\ \A k \in 1..Len(doc.a) :
                  /\ doc.a[k].t = "dict"
                  /\ {"minAge", "value"} \subseteq DictKeys(doc.a[k])
                  /\ DictKeys(doc.a[k]) \subseteq {"minAge", "maxAge", "value"}

\* The raw value is present and is no str, or text that is no JSON, or a
\* document without the structure of its field.
GateRejects(name, raw) ==
    /\ raw # PyNone
    /\ \/ raw.t # "str"
       \/ raw.json = Malformed
       \/ ~StructureOk(name, raw.json)

\* C13: schema gate.  A row in which visits_history, top_countries or
\* age_distribution is present and is not a JSON string, or does not parse,
\* or lacks the structure of its schema, ends as a failed construction: the
\* ValidationException is caught, no record exists, no Database call is
\* issued and the store is as the row found it; when no earlier field is
\* invalid the validator that raised is the one of that field.  A row whose
\* only fault is a top_countries element without visitsShare fails in the
\* top_countries validator.
C13_SchemaGate ==
    \A k \in {Current} \cap (1..Len(csv_data)) :
        WellFormed(csv_data[k]) =>
            \A f \in JsonFields :
                GateRejects(f, csv_data[k][f]) =>
                    /\ pc \notin TableNames
                    /\ outcome[k] = "failed"
                    /\ scrape = PyNone
                    /\ calls = <<>>
                    /\ tables = Before(k)
                    /\ f \notin {validated[j] : j \in 1..(Len(validated) - 1)}
                    /\ (\A j \in 1..Len(validated) : validated[j] = f \/ validated[j] \notin InvalidFields(csv_data[k])) =>
                           validated[Len(validated)] = f

\* A row whose only fault is a top_countries element without visitsShare has
\* failed in the top_countries validator, after a stored row whose rows the
\* store still holds.
C13_Witness ==
    /\ pc = "done"
    /\ outcome = <<"persisted", "failed">>
    /\ InvalidFields(csv_data[2]) = {"top_countries"}
    /\ csv_data[2]["top_countries"].t = "str"
    /\ csv_data[2]["top_countries"].json # Malformed
    /\ csv_data[2]["top_countries"].json.t = "list"
    /\ \E j \in 1..Len(csv_data[2]["top_countries"].json.a) :
           ~DictHas(csv_data[2]["top_countries"].json.a[j], "visitsShare")
    /\ validated[Len(validated)] = "top_countries"
    /\ calls = <<>>
    /\ tables = snap[1]
    /\ Len(tables["top_countries"].rows) > 0


\* The table that each JSON field is written to, and the empty value of the
\* field's type.
TableOfField ==
    [visits_history |-> "website_total_visits", top_countries |-> "top_countries",
     age_distribution |-> "age_distribution"]

EmptyValue ==
    [visits_history |-> PyDict(<<>>), top_countries |-> PyList(<<>>),
     age_distribution |-> PyDict(<<>>)]

\* C14: absent JSON sub-documents.  When the raw visits_history,
\* top_countries or age_distribution of a row is None, construction does not
\* fail in the validator of that field and the record holds the empty value
\* of the field's type; no step of persist adds, removes or replaces a row of
\* that field's table, and the step of that table issues its create_table and
\* insert_records calls, leaves the table existing and raises nothing.
C14_AbsentSubDocuments ==
    [][\A f \in JsonFields :
           /\ ( /\ pc = "construct"
                /\ idx <= Len(csv_data)
                /\ WellFormed(csv_data[idx])
                /\ csv_data[idx][f] = PyNone ) =>
                  /\ pc' \in TableNames => scrape'[f] = EmptyValue[f]
                  /\ pc' \notin TableNames => validated'[Len(validated')] # f
           /\ (pc \in TableNames /\ csv_data[idx][f] = PyNone) =>
                  /\ scrape[f] = EmptyValue[f]
                  /\ tables'[TableOfField[f]].rows = tables[TableOfField[f]].rows
                  /\ written'[TableOfField[f]] = written[TableOfField[f]]
                  /\ pc = TableOfField[f] =>
                         /\ calls' = calls \o <<<<"create_table", pc>>, <<"insert_records", pc>>>>
                         /\ tables'[pc].exists
                         /\ pc' # "crashed"
      ]_vars

\* A row with all three JSON fields None was persisted after a row with all
\* three present: it added its website_scrapes row, and the three tables hold
\* the rows of the first row only.
C14_Witness ==
    /\ pc = "done"
    /\ outcome = <<"persisted", "persisted">>
    /\ \A f \in JsonFields : csv_data[2][f] = PyNone /\ csv_data[1][f] # PyNone
    /\ Len(tables["website_scrapes"].rows) = 2
    /\ \A f \in JsonFields :
           /\ tables[TableOfField[f]].rows = snap[1][TableOfField[f]].rows
           /\ Len(tables[TableOfField[f]].rows) > 0


\* The rows of a table as a set.
RowSet(rows) == {rows[i] : i \in 1..Len(rows)}

\* The top_countries and age_distribution tables of db hold one row per
\* country code and one per age bucket of the record self, and nothing else.
FanOutOf(self, db) ==
    /\ db["top_countries"].exists
    /\ RowSet(db["top_countries"].rows) =
           {<<self.domain, PyStr(isoformat(self.snapshot_date)), self.top_countries.a[j]>> :
                j \in 1..Len(self.top_countries.a)}
    /\ Len(db["top_countries"].rows) = Cardinality(RowSet(db["top_countries"].rows))
    /\ db["age_distribution"].exists
    /\ RowSet(db["age_distribution"].rows) =
           {<<self.domain, PyStr(isoformat(self.snapshot_date)),
              PyStr(self.age_distribution.m[j].k),
              StoreValue("REAL", self.age_distribution.m[j].v)>> :
                j \in 1..Len(self.age_distribution.m)}
    /\ Len(db["age_distribution"].rows) = Len(self.age_distribution.m)

\* C15: top-countries projection and fan-out.  The top_countries of a
\* constructed record is the list of the countryAlpha2Code values of the
\* input array, of the same length and in the same order; and when the first
\* row of a batch constructs, then once that row is over the top_countries
\* table holds exactly one row (domain, snapshot_date, code) per country code
\* of the record and the age_distribution table exactly one row (domain,
\* snapshot_date, label, value) per bucket of the record.
C15_TopCountriesFanOut ==
    /\ (pc \in TableNames /\ csv_data[idx]["top_countries"] # PyNone) =>
           /\ scrape["top_countries"].t = "list"
           /\ Len(scrape["top_countries"].a) = Len(csv_data[idx]["top_countries"].json.a)
           /\ \A j \in 1..Len(scrape["top_countries"].a) :
                  scrape["top_countries"].a[j] =
                      DictGet(csv_data[idx]["top_countries"].json.a[j], "countryAlpha2Code")
    /\ (Len(outcome) = 1 /\ pc \notin TableNames /\ Constructs(csv_data[1])) =>
           FanOutOf(ScrapeInit(csv_data[1]).self, tables)


\* The position of a field in the order of validation.
FieldIndex(name) == CHOOSE k \in 1..Len(FieldOrder) : FieldOrder[k] = name

\* The validator of the field has run for the current row and raised: it is
\* the last that ran, and the row ended as a failed construction.
FailedAt(name) ==
    /\ Len(validated) = FieldIndex(name)
    /\ pc \notin TableNames
    /\ outcome[Len(outcome)] = "failed"
    /\ calls = <<>>

\* The validator of the field has run for the current row and returned v:
\* a later validator ran, and a constructed record holds v.
CoercedTo(name, v) ==
    /\ Len(validated) > FieldIndex(name) \/ pc \in TableNames
    /\ pc \in TableNames => scrape[name] = v

EndsWithPercent(chars) == chars # <<>> /\ chars[Len(chars)] = "%"

Segments(chars) == split(chars, ":")

IntegerSegments(parts) == \A j \in 1..Len(parts) : py_int(parts[j]).ok

Seconds(parts) ==
    py_int(parts[1]).val.v * 3600 + py_int(parts[2]).val.v * 60 + py_int(parts[3]).val.v

GenericScalars ==
    [global_rank |-> "int", total_visits |-> "int", pages_per_visit |-> "float",
     one_month_rank_change |-> "int", two_month_rank_change |-> "int",
     last_month_change_in_traffic |-> "float"]

\* int(chars) or float(chars).
ParseAs(t, chars) == IF t = "int" THEN py_int(chars) ELSE py_float(chars)

\* C18: generic scalar coercion.  Whenever the validator of global_rank,
\* total_visits, pages_per_visit, one_month_rank_change,
\* two_month_rank_change or last_month_change_in_traffic has run for a row:
\* None stays None, a string that parses as the int or float of the field
\* gives that value, a string that does not parse fails the construction with
\* a ValidationException, and so does a value that is neither a string nor
\* None, a number of the target type included; " 42 " gives 42, "" and "abc"
\* fail.
C18_GenericCoercion ==
    \A k \in {Current} \cap (1..Len(csv_data)) :
        WellFormed(csv_data[k]) =>
            \A f \in DOMAIN GenericScalars :
                Len(validated) >= FieldIndex(f) =>
                    \E raw \in {csv_data[k][f]} :
                        /\ raw = PyNone => CoercedTo(f, PyNone)
                        /\ raw.t \notin {"None", "str"} => FailedAt(f)
                        /\ raw = PyStr(<<" ", "4", "2", " ">>) =>
                               CoercedTo(f, IF GenericScalars[f] = "int"
                                            THEN [t |-> "int", v |-> 42]
                                            ELSE [t |-> "float", n |-> 42, e |-> 0])
                        /\ raw \in {PyStr(<<>>), PyStr(<<"a", "b", "c">>)} => FailedAt(f)
                        /\ raw.t = "str" =>
                               \E r \in {ParseAs(GenericScalars[f], raw.s)} :
                                   IF r.ok
                                   THEN /\ CoercedTo(f, r.val)
                                        /\ r.val.t = GenericScalars[f]
                                   ELSE FailedAt(f)

\* After a stored row, a row whose global_rank is the int 100 instead of a
\* string has failed in the global_rank validator.
C18_Witness ==
    /\ pc = "done"
    /\ outcome = <<"persisted", "failed">>
    /\ csv_data[2]["global_rank"] = PyInt(100)
    /\ FailedAt("global_rank")
    /\ tables = snap[1]

\* The calendar date that the first ten characters of an ISO text spell.
CalendarDate(chars) ==
    [t |-> "date",
     y |-> DigitsValue(SubSeq(chars, 1, 4), 0),
     m |-> DigitsValue(SubSeq(chars, 6, 7), 0),
     d |-> DigitsValue(SubSeq(chars, 9, 10), 0)]

\* snapshot_date coercion: a text that datetime.fromisoformat reads gives the
\* calendar date it spells, whatever its time of day and offset; anything
\* else fails the construction in the snapshot_date validator.
SnapshotDateCoerced ==
    \A k \in {Current} \cap (1..Len(csv_data)) :
        (WellFormed(csv_data[k]) /\ Len(validated) >= FieldIndex("snapshot_date")) =>
            \E raw \in {csv_data[k]["snapshot_date"]} :
                /\ IF fromisoformat_date(raw).ok
                   THEN CoercedTo("snapshot_date", CalendarDate(raw.s))
                   ELSE FailedAt("snapshot_date")
                /\ raw \in {PyStr(Text.May20Stamp), PyStr(Text.May20Late)} =>
                       CoercedTo("snapshot_date", [t |-> "date", y |-> 2024, m |-> 5, d |-> 20])
                /\ raw \in {PyNone, PyInt(20240520), PyStr(Text.May20Text), PyStr(Text.Month13)} =>
                       FailedAt("snapshot_date")

\* C19 as stated: snapshot_date coercion, and every row that a step of
\* persist stores, in whichever of the five tables, carries the date of the
\* record in ISO form: the first ten characters of the raw text.
C19_EveryRowCarriesDate ==
    /\ []SnapshotDateCoerced
    /\ [][(pc \in TableNames) =>
              \A j \in (Len(written[pc]) + 1)..Len(written'[pc]) :
                  written'[pc][j][2] = PyStr(SubSeq(csv_data[idx]["snapshot_date"].s, 1, 10))
         ]_vars

\* C19 amended: snapshot_date coercion, and every row stored in
\* website_scrapes, top_countries and age_distribution and the first of the
\* three rows stored in website_global_rank carry the date of the record in
\* ISO form; the other two rows of website_global_rank carry the days one
\* and two months before it, and the rows of website_total_visits the dates
\* that are the keys of visits_history.
C19_RowsCarryDate ==
    /\ []SnapshotDateCoerced
    /\ [][(pc \in TableNames) =>
              \A j \in (Len(written[pc]) + 1)..Len(written'[pc]) :
                  \E stamp \in {written'[pc][j][2]}, i \in {j - Len(written[pc])} :
                      CASE pc = "website_global_rank" ->
                             /\ i \in 1..3
                             /\ stamp = PyStr(isoformat(
                                    IF i = 1 THEN scrape["snapshot_date"]
                                    ELSE MonthsBefore(scrape["snapshot_date"], i - 1)))
                             /\ i = 1 =>
                                    stamp = PyStr(SubSeq(csv_data[idx]["snapshot_date"].s, 1, 10))
                        [] pc = "website_total_visits" ->
                             stamp = PyStr(csv_data[idx]["visits_history"].json.m[i].k)
                        [] OTHER ->
                             stamp = PyStr(SubSeq(csv_data[idx]["snapshot_date"].s, 1, 10))
         ]_vars

\* A row stamped "2024-05-20T23:30:00-05:00" was persisted: its website_scrapes
\* row is dated 2024-05-20, and website_global_rank holds a row of 2024-04-20.
C19_Witness ==
    /\ pc = "done"
    /\ outcome[Len(outcome)] = "persisted"
    /\ csv_data[Len(csv_data)]["snapshot_date"] = PyStr(Text.May20Late)
    /\ tables["website_scrapes"].rows[Len(tables["website_scrapes"].rows)][2] = PyStr(Text.May20)
    /\ \E j \in 1..Len(tables["website_global_rank"].rows) :
           tables["website_global_rank"].rows[j][2] = PyStr(Apr20)

\* The columns of the five destination tables.
DeclaredColumns ==
    [website_scrapes |->
         <<"website", "snapshot_date", "global_rank", "total_visits", "bounce_rate",
           "pages_per_visit", "avg_visit_duration", "last_month_change_in_traffic">>,
     website_global_rank |-> <<"website", "snapshot_date", "global_rank">>,
     website_total_visits |-> <<"website", "snapshot_date", "total_visits">>,
     top_countries |-> <<"website", "snapshot_date", "country">>,
     age_distribution |-> <<"website", "snapshot_date", "age_group_label", "value">>]

\* The Database calls of one persist that runs through its five steps.
TenCalls ==
    <<<<"create_table", "website_scrapes">>, <<"insert_records", "website_scrapes">>,
      <<"create_table", "website_global_rank">>, <<"insert_records", "website_global_rank">>,
      <<"create_table", "website_total_visits">>, <<"insert_records", "website_total_visits">>,
      <<"create_table", "top_countries">>, <<"insert_records", "top_countries">>,
      <<"create_table", "age_distribution">>, <<"insert_records", "age_distribution">>>>

\* C20: create-before-insert ordering in persist.  Every insert_records call
\* of a persist comes after the create_table call of the same table; a table
\* that exists has the columns and the primary key of the table list, and
\* create_table on it changes neither its schema nor its rows; and the
\* persist of a constructed record, once over, has issued exactly five
\* create_table and five insert_records calls, table by table.
C20_CreateBeforeInsert ==
    /\ \A j \in 1..Len(calls) :
           calls[j][1] = "insert_records" =>
               \E i \in 1..(j - 1) : calls[i] = <<"create_table", calls[j][2]>>
    /\ \A n \in TableNames :
           tables[n].exists =>
               /\ [c \in 1..Len(tables[n].cols) |-> tables[n].cols[c][1]] = DeclaredColumns[n]
               /\ tables[n].pk = DeclaredKey[n]
               /\ CreateTable(n, tables) = tables
    /\ \A k \in {Current} \cap (1..Len(csv_data)) :
           (pc \notin TableNames /\ Constructs(csv_data[k])) => calls = TenCalls

\* C21: sequential, retry-free batch processing.  The rows are taken in input
\* order: the row in hand is the one after the rows that have an outcome, and
\* the next row is started only by the step that ends the row in hand, as
\* persisted after its last table or as failed in construction.  A row is
\* constructed once: its construction either fails, which ends the row, or
\* starts its persist, whose steps run once each in the order of persist.
\* The outcome of a row never changes afterwards, and a row that failed
\* leaves the store alone for good.
C21_SequentialNoRetry ==
    /\ [](pc \in TableNames \cup {"construct"} => Len(outcome) = idx - 1)
    /\ [][/\ \A k \in 1..Len(outcome) : outcome'[k] = outcome[k]
          /\ idx' \in {idx, idx + 1}
          /\ idx' = idx + 1 =>
                 /\ outcome' = Append(outcome, outcome'[idx])
                 /\ outcome'[idx] \in {"persisted", "failed"}
                 /\ outcome'[idx] = "persisted" <=> pc = PersistOrder[Len(PersistOrder)]
                 /\ outcome'[idx] = "failed" <=> pc = "construct"
                 /\ outcome'[idx] = "failed" => tables' = tables
                 /\ pc' = "construct"
          /\ (pc = "construct" /\ pc' # "done") =>
                 \/ pc' = PersistOrder[1] /\ idx' = idx /\ outcome' = outcome
                 \/ pc' = "construct" /\ idx' = idx + 1
                 \/ pc' = "crashed" /\ idx' = idx
          /\ pc \in TableNames =>
                 \/ /\ pc' \in TableNames
                    /\ StepIndex(pc') = StepIndex(pc) + 1
                    /\ idx' = idx
                    /\ outcome' = outcome
                 \/ pc' = "construct" /\ idx' = idx + 1
                 \/ pc' = "crashed" /\ idx' = idx
          /\ pc \in {"done", "crashed"} => UNCHANGED vars
         ]_vars

\* A batch of three rows is over: the second row failed, once, and the first
\* and the third were persisted.
C21_Witness ==
    /\ pc = "done"
    /\ idx = 4
    /\ outcome = <<"persisted", "failed", "persisted">>
    /\ snap[2] = snap[1]
    /\ snap[3] # snap[2]

\* C22: Database singleton.  Over any sequence of Database(...) calls, two
\* calls for the same database path, however each supplies it (positionally,
\* by keyword or by default), return the same instance; no path is connected
\* to twice; and all the calls that leave the path to its default, as those
\* of Scrape.db do, return one instance.
C22_OneInstancePerPath ==
    /\ \A i, j \in 1..Len(handles) :
           ConnectPath(handles[i].call) = ConnectPath(handles[j].call) =>
               handles[i].instance = handles[j].instance
    /\ \A a, b \in 1..Len(connections) : connections[a] = connections[b] => a = b
    /\ \A i, j \in 1..Len(handles) :
           (handles[i].call.form = "default" /\ handles[j].call.form = "default") =>
               handles[i].instance = handles[j].instance

\* The record lacks a value for a column of the table, or has one too many.
Misfit(db, table, record) == Len(record) # Len(db[table].cols)

\* C23: transactional store operations.  For every direct create_table,
\* insert_records or execute_sql call: a call that raises leaves every table
\* as it was before the call, and what a call that returns did is in the
\* database that the next call finds.  insert_records given a list with a
\* record that does not fit the table raises, and none of the records of the
\* list, those before the misfit included, is in the table afterwards, while
\* the rows of earlier calls are all still there; given a list that fits, it
\* stores every record of the list.
C23_TransactionalCalls ==
    [][(Len(calls') = Len(calls) + 1) =>
           \E call \in {calls'[Len(calls')]} :
               /\ result'.op = call[1]
               /\ result'.exc # "none" => tables' = tables
               /\ \A n \in TableNames \ {call[2]} : tables'[n] = tables[n]
               /\ call[1] = "create_table" =>
                      /\ result'.exc = "none"
                      /\ tables'[call[2]].exists
                      /\ tables[call[2]].exists => tables' = tables
               /\ (call[1] = "insert_records" /\ ~tables[call[2]].exists) =>
                      result'.exc = "OperationalError"
               /\ (call[1] = "insert_records" /\ tables[call[2]].exists) =>
                      IF \E k \in 1..Len(call[3]) : Misfit(tables, call[2], call[3][k])
                      THEN /\ result'.exc = "ProgrammingError"
                           /\ tables'[call[2]].rows = tables[call[2]].rows
                      ELSE /\ result'.exc = "none"
                           /\ \A k \in 1..Len(call[3]) :
                                  \E j \in 1..Len(tables'[call[2]].rows) :
                                      tables'[call[2]].rows[j] = call[3][k]
                           /\ \A i \in 1..Len(tables[call[2]].rows) :
                                  \/ \E j \in 1..Len(tables'[call[2]].rows) :
                                         tables'[call[2]].rows[j] = tables[call[2]].rows[i]
                                  \/ \E k \in 1..Len(call[3]) :
                                         /\ call[3][k][1] = tables[call[2]].rows[i][1]
                                         /\ call[3][k][2] = tables[call[2]].rows[i][2]
               /\ (call[1] = "execute_sql" /\ tables[call[2]].exists) =>
                      /\ result'.exc = "none"
                      /\ call[3] = "select" =>
                             (tables' = tables /\ result'.rows = tables[call[2]].rows)
                      /\ call[3] = "delete" => tables'[call[2]].rows = <<>>
      ]_vars

\* insert_records raised ProgrammingError on the second record of a list of
\* two: the table holds the six rows of the earlier call and not the first
\* record of the list.
C23_Witness ==
    /\ result.op = "insert_records"
    /\ result.exc = "ProgrammingError"
    /\ Len(calls[Len(calls)][3]) = 2
    /\ ~Misfit(tables, "website_total_visits", calls[Len(calls)][3][1])
    /\ tables["website_total_visits"].rows = GrowthRecords
    /\ \A j \in 1..Len(tables["website_total_visits"].rows) :
           tables["website_total_visits"].rows[j] # calls[Len(calls)][3][1]


\* ---------------------------------------------------------------------------
\* C24: the month-on-month growth calculation returns, for each website and
\* each of its snapshot dates but the earliest, the tuple (website, date,
\* value, value at the immediately preceding date of that website, percentage
\* change (value - previous) * 100 / previous), ordered by website and then
\* by date, and nothing for a website's earliest date.  Where the previous
\* value is 0 the quotient does not exist and the percentage is NULL.
GrowthColumn ==
    [website_global_rank |-> "global_rank", website_total_visits |-> "total_visits"]

DayNumber(day) ==
    CalendarDate(day.s).y * 10000 + CalendarDate(day.s).m * 100 + CalendarDate(day.s).d

EarlierRows(rows, r) ==
    {q \in RowSet(rows) : q[1] = r[1] /\ DayNumber(q[2]) < DayNumber(r[2])}

PrecedingRow(rows, r) ==
    CHOOSE q \in EarlierRows(rows, r) :
        \A o \in EarlierRows(rows, r) : DayNumber(o[2]) <= DayNumber(q[2])

ExpectedGrowth(rows, c) ==
    {<<r[1], r[2], r[c], PrecedingRow(rows, r)[c]>> :
        r \in {q \in RowSet(rows) : EarlierRows(rows, q) # {}}}

IsPercentage(pct, val, prev) ==
    IF prev = 0 THEN pct = PyNone
    ELSE /\ pct.t = "real"
         /\ pct.den > 0
         /\ pct.num * prev = (val - prev) * 100 * pct.den

TestGrowthExpected ==
    <<<<PyStr(Text.AnotherCom), PyStr(Text.Feb01), PyInt(180), PyInt(200), Real(-10, 1)>>,
      <<PyStr(Text.AnotherCom), PyStr(Text.Mar01), PyInt(90), PyInt(180), Real(-50, 1)>>,
      <<PyStr(Text.ExampleCom), PyStr(Text.Feb01), PyInt(100), PyInt(100), Real(0, 1)>>,
      <<PyStr(Text.ExampleCom), PyStr(Text.Mar01), PyInt(90), PyInt(100), Real(-10, 1)>>>>

C24_MonthOnMonthGrowth ==
    (result.op = "calculate_month_on_month_growth" /\ result.exc = "none") =>
        \E rows \in {tables[result.table].rows} :
        \E c \in {ColumnIndex(tables[result.table].cols, GrowthColumn[result.table])} :
            /\ {SubSeq(t, 1, 4) : t \in RowSet(result.rows)} = ExpectedGrowth(rows, c)
            /\ Len(result.rows) = Cardinality(ExpectedGrowth(rows, c))
            /\ \A t \in RowSet(result.rows) : IsPercentage(t[5], t[3].v, t[4].v)
            /\ \A i, j \in 1..Len(result.rows) :
                   i < j =>
                       \/ TextLess(result.rows[i][1].s, result.rows[j][1].s)
                       \/ /\ result.rows[i][1] = result.rows[j][1]
                          /\ DayNumber(result.rows[i][2]) < DayNumber(result.rows[j][2])
            /\ RowSet(rows) = RowSet(GrowthRecords) => result.rows = TestGrowthExpected

\* The fixture of test_analyse with a re-reported February value and a month
\* of 0 added: the re-reported row is ordered by its date, not by insertion.
C24_Witness ==
    /\ result.op = "calculate_month_on_month_growth"
    /\ result.exc = "none"
    /\ Len(result.rows) >= 4
    /\ \E i \in 1..Len(tables[result.table].rows) :
           /\ i < Len(tables[result.table].rows)
           /\ DayNumber(tables[result.table].rows[i][2]) >
                  DayNumber(tables[result.table].rows[Len(tables[result.table].rows)][2])
           /\ tables[result.table].rows[i][1] =
                  tables[result.table].rows[Len(tables[result.table].rows)][1]


\* ---------------------------------------------------------------------------
\* C25: persist never deletes.  Every step leaves in every table all the
\* primary keys that were there before it, and the fan-out tables hold the
\* keys of every list written to them: a snapshot persisted again with a
\* changed top_countries list or changed age buckets keeps the rows of the
\* earlier list, so the table holds the union of both lists.
KeysIn(db, n) ==
    {[k \in 1..Len(DeclaredKey[n]) |-> db[n].rows[i][ColumnIndex(db[n].cols, DeclaredKey[n][k])]] :
        i \in 1..Len(db[n].rows)}

KeysWritten(n) ==
    {[k \in 1..Len(DeclaredKey[n]) |-> written[n][w][ColumnIndex(tables[n].cols, DeclaredKey[n][k])]] :
        w \in 1..Len(written[n])}

C25_PersistNeverDeletes ==
    /\ [](\A n \in {"top_countries", "age_distribution"} :
              tables[n].exists => KeysIn(tables, n) = KeysWritten(n))
    /\ [][\A n \in TableNames : KeysIn(tables, n) \subseteq KeysIn(tables', n)]_vars

\* example.com of 2024-05-20 persisted twice, with the countries US, IN and
\* then IN, DE, and with three and then two age buckets of which one is new.
C25_Witness ==
    /\ Len(csv_data) >= 2
    /\ csv_data[1] = RowA
    /\ csv_data[2] = RowA2
    /\ idx > 2
    /\ Cardinality(KeysIn(tables, "top_countries")) = 3
    /\ Cardinality(KeysIn(tables, "age_distribution")) = 4
    /\ \A key \in KeysIn(tables, "top_countries") \cup KeysIn(tables, "age_distribution") :
           key[1] = PyStr(Text.ExampleCom) /\ key[2] = PyStr(Text.May20)


\* ---------------------------------------------------------------------------
\* C26: cross-record overwrite in website_global_rank.  Once a record is
\* finished, the row of every key (website, date) holds the rank written by
\* the last processed record, in input order, that produced a row for that
\* key, as its current rank or as a derived one- or two-month-prior rank.  A
\* derived row of a snapshot processed later replaces the rank an earlier
\* processed snapshot reported for that date, so the table depends on the
\* order of the rows.
RanksProduced(k) ==
    IF Constructs(csv_data[k]) /\ ~RankMissing(csv_data[k])
    THEN ExpectedRankRows(ScrapeInit(csv_data[k]).self)
    ELSE <<>>

LastForKey(k, r) ==
    \A j \in (k + 1)..Len(outcome) :
        \A m \in 1..Len(RanksProduced(j)) :
            <<RanksProduced(j)[m][1], RanksProduced(j)[m][2]>> # <<r[1], r[2]>>

RankOf(website, day) ==
    {row[3] : row \in {r \in RowSet(tables["website_global_rank"].rows) :
                           r[1] = PyStr(website) /\ r[2] = PyStr(day)}}

C26_LastRecordWins ==
    pc \notin TableNames =>
        /\ \A k \in 1..Len(outcome) :
               \A m \in 1..Len(RanksProduced(k)) :
                   LastForKey(k, RanksProduced(k)[m]) =>
                       RanksProduced(k)[m] \in RowSet(tables["website_global_rank"].rows)
        /\ \A row \in RowSet(tables["website_global_rank"].rows) :
               \E k \in 1..Len(outcome) :
                   \E m \in 1..Len(RanksProduced(k)) :
                       row = RanksProduced(k)[m] /\ LastForKey(k, row)
        /\ (csv_data = <<RowA, RowLater>> /\ pc = "done") =>
               /\ RankOf(Text.ExampleCom, Text.May20) = {PyInt(87)}
               /\ RankOf(Text.ExampleCom, Apr20) = {PyInt(79)}
               /\ RankOf(Text.ExampleCom, Mar20) = {PyInt(103)}
        /\ (csv_data = <<RowLater, RowA>> /\ pc = "done") =>
               /\ RankOf(Text.ExampleCom, Text.May20) = {PyInt(100)}
               /\ RankOf(Text.ExampleCom, Apr20) = {PyInt(105)}
               /\ RankOf(Text.ExampleCom, Mar20) = {PyInt(103)}

\* The snapshot of 2024-05-20 reports rank 100; the snapshot of 2024-06-20,
\* processed after it, derives 87 for 2024-05-20 and replaces it.
C26_Witness ==
    /\ pc = "done"
    /\ csv_data = <<RowA, RowLater>>
    /\ outcome = <<"persisted", "persisted">>
    /\ snap[1]["website_global_rank"].rows[1] =
           <<PyStr(Text.ExampleCom), PyStr(Text.May20), PyInt(100)>>
    /\ RankOf(Text.ExampleCom, Text.May20) = {PyInt(87)}


\* ---------------------------------------------------------------------------
\* C27: absent values through the CSV hand-off.  A data point whose
\* global_rank, total_visits, pages_per_visit, one_month_rank_change,
\* two_month_rank_change or last_month_change_in_traffic was None at
\* extraction is written by to_csv as an empty cell and read back by load_csv
\* as the empty string, never as None; its row fails the int or float
\* coercion of that field, is rejected with ValidationException, and nothing
\* of it is persisted.
AbsentAtExtraction(k) == {f \in NumericPointFields : data_points[k][f] = PyNone}

C27_AbsentThroughCsv ==
    /\ pc # "export" =>
           /\ Len(csv_data) = Len(data_points)
           /\ \A k \in 1..Len(data_points) :
                  /\ \A f \in AbsentAtExtraction(k) : csv_data[k][f] = PyStr(<<>>)
                  /\ \A f \in FieldNames : csv_data[k][f] # PyNone
                  /\ data_points[k] = PointA => csv_data[k] = RowA
    /\ \A k \in 1..Len(outcome) :
           AbsentAtExtraction(k) # {} =>
               /\ outcome[k] = "failed"
               /\ snap[k] = Before(k)
               /\ AbsentAtExtraction(k) \subseteq InvalidFields(csv_data[k])
               /\ (k = Len(outcome) /\ pc \notin TableNames) =>
                      /\ raised = "none"
                      /\ \E f \in AbsentAtExtraction(k) :
                             /\ Len(validated) = FieldIndex(f)
                             /\ \A g \in AbsentAtExtraction(k) : FieldIndex(f) <= FieldIndex(g)

\* A persisted data point, then one extracted without total_visits: its row
\* is read with total_visits = "", fails at that field and leaves the
\* database as the first data point left it.
C27_Witness ==
    /\ pc = "done"
    /\ Len(data_points) = 2
    /\ data_points[1] = PointA
    /\ data_points[2] = [PointA EXCEPT !.total_visits = PyNone]
    /\ csv_data[2].total_visits = PyStr(<<>>)
    /\ outcome = <<"persisted", "failed">>
    /\ validated = <<"domain", "snapshot_date", "global_rank", "total_visits">>
    /\ tables = snap[1]
    /\ tables["website_scrapes"].rows # <<>>

=============================================================================
